---------------------------- MODULE Spec2Model ----------------------------
(***************************************************************************)
(* Mapply: the graph layout engine (src/js/layout.js, autoLayoutMap), the  *)
(* viewport transform (src/js/canvas.js), the edge router                  *)
(* (src/js/connections.js), the node controller (src/js/nodes.js), the     *)
(* undo history (src/js/history.js) and the map storage of the             *)
(* application (app.js, src/js/storage.js).  Each component has its own    *)
(* specification: SpecLayout and SpecDangling; SpecCanvas and SpecPan;     *)
(* SpecRouter; SpecNodes, SpecConnect and SpecDrag; SpecHistory; SpecApp.  *)
(*                                                                         *)
(* Layout units.  The numbers of the layout engine are integers:           *)
(* every horizontal quantity that the code halves (a slice start,          *)
(* node.x, rootX, orphanX) is kept in HALF PIXELS, so that                 *)
(*     x + availableWidth / 2 - nodeWidth / 2                              *)
(* is the integer  x2 + availableWidth - nodeWidth  with x2 = 2 * x.       *)
(* Widths (estimateNodeWidth, getSubtreeWidth, rect.width) and every       *)
(* vertical quantity are whole pixels.  All values are small dyadic        *)
(* rationals, which IEEE doubles represent exactly, so the integer model   *)
(* computes what the JavaScript computes.  The numbers of the viewport     *)
(* transform and of the router are exact rationals (Rat).                  *)
(***************************************************************************)
EXTENDS Integers, Sequences, FiniteSets, TLC

(***************************************************************************)
(* Bounds of the model.                                                    *)
(***************************************************************************)
MaxNodes == 2
MaxConns == 2
MaxPasses == 2

(***************************************************************************)
(* Program constants (src/js/layout.js).                                   *)
(***************************************************************************)
LEVEL_HEIGHT == 220
MIN_NODE_SPACING == 50
BASE_NODE_WIDTH == 180
CHAR_WIDTH == 7
charsPerLine == 25
PADDING == 40
WIDTH_CAP == 350
TOP_MARGIN == 80
ORPHAN_OFFSET == 200
DEFAULT_RECT_WIDTH == 1400

\* No node: the result of map.nodes.find(...) when nothing matches, and the
\* value of a Map lookup that misses.
NoNode == 0

\* The result of a call that never returns: the recursion of getSubtreeWidth
\* has no visited set, so on a cycle it recurses until the engine raises
\* RangeError (maximum call stack size exceeded).
Overflow == -1

VARIABLES
    nodes,        \* map.nodes: sequence of [id, type, content, x, y]
    connections,  \* map.connections: sequence of [from, to]
    rectWidth,    \* rect.width of the viewport element (pixels)
    pc,           \* position inside autoLayoutMap
    childrenOf,   \* Map parentId -> sequence of child ids
    parentOf,     \* Map childId -> parentId (NoNode: no entry)
    roots,        \* sequence of root node ids
    positioned,   \* Set of positioned node ids
    rootX,        \* running offset of the root trees (half pixels)
    rootIdx,      \* index of the roots.forEach iteration
    orphanX,      \* orphan grid cursor (half pixels)
    orphanY,      \* orphan grid cursor (pixels)
    writes,       \* history: per node, coordinate assignments made by this pass
    slice,        \* history: per node, the (x, availableWidth, caller) of the
                  \* layoutNode call that positioned it
    treeOf,       \* history: per node, index of the root whose walk placed it
                  \* (0: not placed by the tree walk)
    result,       \* outcome of the last pass: "none", "noop", "success", "threw"
    snapshots,    \* history: the positions at the end of every returned pass
    renders,      \* renderAllNodes calls made
    passes        \* passes started

\* The viewport transform (src/js/canvas.js).  Numbers are exact rationals.
VARIABLES
    scale,        \* zoom factor
    offsetX,      \* pan offset (screen pixels)
    offsetY,
    isPanning,    \* a pan gesture is in progress
    panStartX,    \* pointer position minus offset at startPan
    panStartY,
    container,    \* canvasContainer.getBoundingClientRect()
    domNodes,     \* the .node elements of nodesLayer: style.left, style.top,
                  \* offsetWidth, offsetHeight
    lastCall,     \* history: the last operation, its arguments and the
                  \* transform it started from
    panOrigin,    \* history: pointer position and transform at the last startPan
    canvasOps     \* operations performed

\* The edge router (src/js/connections.js).
VARIABLES
    elements,     \* the node elements of the document: id -> the rectangle
                  \* getBoundingClientRect() returns (screen pixels)
    layer,        \* the children of connectionsLayer: path elements
    previewPath,  \* the preview path element exists (null otherwise)
    lastRouterOp, \* history: the last router operation
    routerOps     \* operations performed

\* The interaction controller (src/js/nodes.js) and its collaborators.
\* In the specifications of the controller, nodes is a sequence of
\* [id, type, x, y] in whole pixels and connections a sequence of
\* [id, from, to].
VARIABLES
    selectedNodeId,     \* the primary selected node (NoNode: null)
    selectedNodeIds,    \* Set of selected node ids
    dragState,          \* the active node drag (NoDrag: null)
    listeners,          \* the mousemove and mouseup listeners of the document,
                        \* in registration order
    pendingImports,     \* startConnection calls whose import() has not resolved
    connecting,         \* the canvas container has the class "connecting"
    connectionDrag,     \* history: a node handle was pressed and the pointer
                        \* has not been released since
    previewStartNodeId, \* connections.js: source node of the preview
    elStyle,            \* style.left and style.top of the node elements
    idCounter,          \* ids handed out by generateId
    nodeChanges,        \* onNodeChange calls made
    changeSnapshot,     \* history: map.nodes as the last onNodeChange call saw it
    lastEdit,           \* history: the last event and the state it started from
    opsLeft             \* events the controller may still handle

\* history.js: the HistoryManager exported as history.  A map state is a
\* record [title, x]; Null is null.
VARIABLES
    history,            \* [undoStack, redoStack, currentState]
    historyReturn,      \* what the last call returned (Null: null or nothing)
    historyCall,        \* history: the last call, the call before it, and the
                        \* manager as the last call found it
    historyOps          \* calls made

\* app.js and storage.js: the open map, the auto-save timer and the maps in
\* the database.  A map is known by its id.
VARIABLES
    currentMap,         \* id of the map that is open (NoMap: null)
    saveTimeout,        \* the timer scheduleAutoSave set last (0: null)
    timerCount,         \* timers set so far
    firedTimers,        \* the timers that have fired
    storedMaps,         \* ids of the maps in the object store, by updatedAt,
                        \* oldest first
    mapCount,           \* map ids handed out by generateId
    tasks,              \* the async handlers that are waiting for the database
    deletions,          \* history: the handleDeleteMap calls that completed,
                        \* each with the timer that was pending then
    appOps              \* steps taken

layoutVars == <<nodes, connections, rectWidth, pc, childrenOf, parentOf, roots,
                positioned, rootX, rootIdx, orphanX, orphanY, writes,
                slice, treeOf, result, snapshots, renders, passes>>

canvasVars == <<scale, offsetX, offsetY, isPanning, panStartX, panStartY,
                container, domNodes, lastCall, panOrigin, canvasOps>>

routerVars == <<elements, layer, previewPath, lastRouterOp, routerOps>>

editorVars == <<selectedNodeId, selectedNodeIds, dragState, listeners,
                pendingImports, connecting, connectionDrag, previewStartNodeId,
                elStyle,
                idCounter, nodeChanges, changeSnapshot, lastEdit, opsLeft>>

historyVars == <<history, historyReturn, historyCall, historyOps>>

\* The modules beside the map, its view and its controller.
appVars == <<currentMap, saveTimeout, timerCount, firedTimers, storedMaps,
             mapCount, tasks, deletions, appOps>>

serviceVars == <<historyVars, appVars>>

vars == <<layoutVars, canvasVars, routerVars, editorVars, serviceVars>>

\* What a layout pass leaves alone.
notLayout == <<canvasVars, routerVars, editorVars, serviceVars>>

(***************************************************************************)
(* Sequence helpers.                                                       *)
(***************************************************************************)
RECURSIVE SumSeq(_)
SumSeq(s) == IF s = <<>> THEN 0 ELSE Head(s) + SumSeq(Tail(s))

RECURSIVE Rep(_, _)
Rep(c, n) == IF n = 0 THEN <<>> ELSE <<c>> \o Rep(c, n - 1)

Min(a, b) == IF a < b THEN a ELSE b
Max(a, b) == IF a > b THEN a ELSE b

(***************************************************************************)
(* Exact rational numbers n / d, d > 0, in lowest terms: the values of the *)
(* JavaScript numbers of the viewport transform, without the rounding of   *)
(* IEEE doubles.                                                           *)
(***************************************************************************)
Abs(a) == IF a < 0 THEN -a ELSE a

RECURSIVE GCD(_, _)
GCD(a, b) == IF b = 0 THEN a ELSE GCD(b, a % b)

\* n / d for d # 0.
Rat(n, d) ==
    LET g == GCD(Abs(n), Abs(d))
        s == IF d < 0 THEN -1 ELSE 1
    IN  [n |-> (s * n) \div g, d |-> (s * d) \div g]

R(n) == [n |-> n, d |-> 1]

\* The operands are in lowest terms; common factors are cancelled before
\* the products are formed.
RAdd(a, b) ==
    LET g == GCD(a.d, b.d)
    IN  Rat(a.n * (b.d \div g) + b.n * (a.d \div g), (a.d \div g) * b.d)
RNeg(a) == [n |-> -a.n, d |-> a.d]
RSub(a, b) == RAdd(a, RNeg(b))
RMul(a, b) ==
    LET g1 == GCD(Abs(a.n), b.d)
        g2 == GCD(Abs(b.n), a.d)
    IN  Rat((a.n \div g1) * (b.n \div g2), (a.d \div g2) * (b.d \div g1))
RDiv(a, b) == RMul(a, Rat(b.d, b.n))
RLe(a, b) ==
    LET g == GCD(a.d, b.d) IN a.n * (b.d \div g) <= b.n * (a.d \div g)
RLt(a, b) == ~RLe(b, a)
RMin(a, b) == IF RLe(a, b) THEN a ELSE b
RMax(a, b) == IF RLe(a, b) THEN b ELSE a

(***************************************************************************)
(* Node contents are sequences of characters.                              *)
(***************************************************************************)
\* Index of the first ">" at or after position i, 0 if there is none.
RECURSIVE IndexOfGt(_, _)
IndexOfGt(s, i) ==
    IF i > Len(s) THEN 0
    ELSE IF s[i] = ">" THEN i
    ELSE IndexOfGt(s, i + 1)

\* content.replace(/<[^>]*>/g, ''): every "<" that is followed, somewhere,
\* by a ">" is removed together with everything up to the first such ">".
RECURSIVE StripHtmlFrom(_, _)
StripHtmlFrom(s, i) ==
    IF i > Len(s) THEN <<>>
    ELSE IF s[i] = "<" /\ IndexOfGt(s, i + 1) # 0
         THEN StripHtmlFrom(s, IndexOfGt(s, i + 1) + 1)
         ELSE <<s[i]>> \o StripHtmlFrom(s, i + 1)

StripHtml(s) == StripHtmlFrom(s, 1)

\* "<b>" + 18 characters + "</b>": 25 characters, 18 once the tags are stripped.
ContentTagged == <<"<", "b", ">">> \o Rep("a", 18) \o <<"<", "/", "b", ">">>
\* 30 characters of plain text: longer than one line of 25.
ContentLong == Rep("w", 30)
Contents == {ContentTagged, ContentLong}

\* The stripped text of every content of the model, computed once (a table
\* of StripHtml, which the code evaluates on every call).
TextOf == [c \in Contents |-> StripHtml(c)]

(***************************************************************************)
(* The map.                                                                *)
(***************************************************************************)
NodeIds(ns) == {ns[i].id : i \in 1..Len(ns)}

\* map.nodes.find(n => n.id === nodeId): index of the first match, 0 if none.
FindNode(ns, nodeId) ==
    IF \E i \in 1..Len(ns) : ns[i].id = nodeId
    THEN CHOOSE i \in 1..Len(ns) :
            ns[i].id = nodeId /\ \A j \in 1..(i - 1) : ns[j].id # nodeId
    ELSE NoNode

\* Every id a connection or a node mentions.
AllIds(ns, cs) ==
    NodeIds(ns) \cup {cs[i].from : i \in 1..Len(cs)} \cup {cs[i].to : i \in 1..Len(cs)}

(***************************************************************************)
(* autoLayoutMap, lines 29-37: the derived graph.                          *)
(***************************************************************************)
EmptyGraph(ns, cs) ==
    [childrenOf |-> [id \in AllIds(ns, cs) |-> <<>>],
     parentOf   |-> [id \in AllIds(ns, cs) |-> NoNode]]

\* The body of map.connections.forEach: push the child, overwrite the parent.
ConnStep(g, conn) ==
    [childrenOf |-> [g.childrenOf EXCEPT ![conn.from] = Append(@, conn.to)],
     parentOf   |-> [g.parentOf EXCEPT ![conn.to] = conn.from]]

RECURSIVE ForEachConn(_, _)
ForEachConn(g, cs) ==
    IF cs = <<>> THEN g ELSE ForEachConn(ConnStep(g, Head(cs)), Tail(cs))

buildGraph(ns, cs) == ForEachConn(EmptyGraph(ns, cs), cs)

(***************************************************************************)
(* autoLayoutMap, lines 39-48: the roots.                                  *)
(***************************************************************************)
\* map.nodes.filter(n => !parentOf.has(n.id)), as ids in node-list order.
RECURSIVE rootCandidates(_, _, _)
rootCandidates(ns, po, i) ==
    IF i > Len(ns) THEN <<>>
    ELSE (IF po[ns[i].id] = NoNode THEN <<ns[i].id>> ELSE <<>>)
         \o rootCandidates(ns, po, i + 1)

\* Faulty variant: the fallback ignores the node type.
mainNodeFirst(ns) == ns[1].id

\* map.nodes.find(n => n.type === 'main') || map.nodes[0]
mainNode(ns) ==
    IF \E i \in 1..Len(ns) : ns[i].type = "main"
    THEN ns[CHOOSE i \in 1..Len(ns) :
                ns[i].type = "main" /\ \A j \in 1..(i - 1) : ns[j].type # "main"].id
    ELSE ns[1].id

findRoots(ns, po) ==
    IF rootCandidates(ns, po, 1) # <<>> THEN rootCandidates(ns, po, 1)
    ELSE IF Len(ns) > 0 THEN <<mainNode(ns)>>
    ELSE <<>>

(***************************************************************************)
(* estimateNodeWidth, lines 68-80.                                         *)
(***************************************************************************)
estimateNodeWidth(ns, nodeId) ==
    IF FindNode(ns, nodeId) = NoNode THEN BASE_NODE_WIDTH
    ELSE LET text  == TextOf[ns[FindNode(ns, nodeId)].content]
             width == Min(Len(text), charsPerLine) * CHAR_WIDTH + PADDING
         IN  Max(BASE_NODE_WIDTH, Min(width, WIDTH_CAP))

(***************************************************************************)
(* getSubtreeWidth, lines 85-99.  The function recurses into every child   *)
(* and keeps no visited set.  `frames` is the number of stack frames still *)
(* available: a chain of nested calls longer than the number of ids has    *)
(* met one id twice, so it is on a cycle of childrenOf and the JavaScript  *)
(* recursion never returns (RangeError).  StackFrames is that number, so   *)
(* Overflow is returned exactly when the code overflows the stack.         *)
(***************************************************************************)
StackFrames(ns, cs) == Cardinality(AllIds(ns, cs))

\* Faulty variant: the width of the node alone, children ignored.
getSubtreeWidthOwn(ns, ch, nodeId, frames) ==
    estimateNodeWidth(ns, nodeId) + MIN_NODE_SPACING

RECURSIVE getSubtreeWidth(_, _, _, _)
getSubtreeWidth(ns, ch, nodeId, frames) ==
    IF frames = 0 THEN Overflow
    ELSE LET nodeWidth == estimateNodeWidth(ns, nodeId)
             children  == ch[nodeId]
             widths    == [i \in 1..Len(children) |->
                              getSubtreeWidth(ns, ch, children[i], frames - 1)]
         IN  IF children = <<>> THEN nodeWidth + MIN_NODE_SPACING
             ELSE IF \E i \in 1..Len(children) : widths[i] = Overflow THEN Overflow
             ELSE Max(SumSeq(widths), nodeWidth + MIN_NODE_SPACING)

\* roots.reduce((sum, root) => sum + getSubtreeWidth(root.id), 0), line 137.
totalRootWidth(ns, cs, ch, rs) ==
    LET widths == [i \in 1..Len(rs) |->
                      getSubtreeWidth(ns, ch, rs[i], StackFrames(ns, cs))]
    IN  IF \E i \in 1..Len(rs) : widths[i] = Overflow THEN Overflow
        ELSE SumSeq(widths)

(***************************************************************************)
(* layoutNode, lines 104-133.  The walk state `st` is what the closure     *)
(* mutates: the nodes' coordinates and the positioned set, together with   *)
(* the history of the calls (writes, slice).                               *)
(***************************************************************************)
\* Faulty variant: node.x += ... instead of node.x = ...
setPositionRelative(ns, nodeId, x, y) ==
    [ns EXCEPT ![FindNode(ns, nodeId)].x = @ + x, ![FindNode(ns, nodeId)].y = y]

\* node.x = ...; node.y = ...
setPosition(ns, nodeId, x, y) ==
    [ns EXCEPT ![FindNode(ns, nodeId)].x = x, ![FindNode(ns, nodeId)].y = y]

\* Faulty variant: a node that is already positioned is laid out again.
skipNodeMissingOnly(st, nodeId) == FindNode(st.nodes, nodeId) = NoNode

\* !node || positioned.has(nodeId), line 106.
skipNode(st, nodeId) ==
    FindNode(st.nodes, nodeId) = NoNode \/ nodeId \in st.positioned

RECURSIVE layoutNode(_, _, _, _, _, _, _, _)
RECURSIVE layoutChildren(_, _, _, _, _, _, _, _, _)

\* x is in half pixels, y and availableWidth in pixels; caller is the id
\* whose layoutNode made the call (NoNode for the root loop).
layoutNode(st, ch, cs, nodeId, x, y, availableWidth, caller) ==
    IF skipNode(st, nodeId) THEN st
    ELSE LET nodeWidth == estimateNodeWidth(st.nodes, nodeId)
             st1 == [nodes      |-> setPosition(st.nodes, nodeId,
                                        x + availableWidth - nodeWidth, y),
                     positioned |-> st.positioned \cup {nodeId},
                     writes     |-> [st.writes EXCEPT ![nodeId] = @ + 1],
                     slice      |-> [st.slice EXCEPT ![nodeId] =
                                        [x |-> x, width |-> availableWidth,
                                         caller |-> caller]]]
             children == ch[nodeId]
             childWidths == [i \in 1..Len(children) |->
                                getSubtreeWidth(st.nodes, ch, children[i],
                                                StackFrames(st.nodes, cs))]
             totalChildWidth == SumSeq(childWidths)
             childX == x + availableWidth - totalChildWidth
         IN  IF children = <<>> THEN st1
             ELSE layoutChildren(st1, ch, cs, nodeId, children, childWidths, 1,
                                 childX, y + LEVEL_HEIGHT)

\* Faulty variant: childX is not advanced from one child to the next.
layoutChildrenStacked(st, ch, cs, parent, children, childWidths, i, childX, y) ==
    IF i > Len(children) THEN st
    ELSE layoutChildren(
             layoutNode(st, ch, cs, children[i], childX, y, childWidths[i], parent),
             ch, cs, parent, children, childWidths, i + 1, childX, y)

\* children.forEach((childId, i) => { layoutNode(...); childX += childWidths[i] })
layoutChildren(st, ch, cs, parent, children, childWidths, i, childX, y) ==
    IF i > Len(children) THEN st
    ELSE layoutChildren(
             layoutNode(st, ch, cs, children[i], childX, y, childWidths[i], parent),
             ch, cs, parent, children, childWidths, i + 1,
             childX + 2 * childWidths[i], y)


(***************************************************************************)
(* The viewport transform, src/js/canvas.js.                               *)
(***************************************************************************)
MIN_ZOOM == Rat(1, 4)
MAX_ZOOM == R(2)
ZOOM_STEP == Rat(1, 10)
FIT_PADDING == 60

\* Math.max(MIN_ZOOM, Math.min(MAX_ZOOM, s))
clampZoom(s) == RMax(MIN_ZOOM, RMin(MAX_ZOOM, s))

\* Faulty variant: the container origin is not added back.
canvasToScreenNoOrigin(t, rect, canvasX, canvasY) ==
    [x |-> RAdd(RMul(canvasX, t.scale), t.offsetX),
     y |-> RAdd(RMul(canvasY, t.scale), t.offsetY)]

\* screenToCanvas, lines 294-300; t is the transform {scale, offsetX, offsetY}.
screenToCanvas(t, rect, screenX, screenY) ==
    [x |-> RDiv(RSub(RSub(screenX, R(rect.left)), t.offsetX), t.scale),
     y |-> RDiv(RSub(RSub(screenY, R(rect.top)), t.offsetY), t.scale)]

\* canvasToScreen, lines 308-314.
canvasToScreen(t, rect, canvasX, canvasY) ==
    [x |-> RAdd(RAdd(RMul(canvasX, t.scale), t.offsetX), R(rect.left)),
     y |-> RAdd(RAdd(RMul(canvasY, t.scale), t.offsetY), R(rect.top))]

\* getTransform, lines 319-321.
getTransform == [scale |-> scale, offsetX |-> offsetX, offsetY |-> offsetY]

\* The module state after initCanvas (lines 13-20): no call made yet.
NoCall == [op |-> "none", x |-> R(0), y |-> R(0),
           before |-> [scale |-> R(1), offsetX |-> R(0), offsetY |-> R(0)]]
NoPan == [x |-> R(0), y |-> R(0), scale |-> R(1), offsetX |-> R(0), offsetY |-> R(0)]

CanvasConstructed ==
    /\ scale = R(1)
    /\ offsetX = R(0)
    /\ offsetY = R(0)
    /\ isPanning = FALSE
    /\ panStartX = R(0)
    /\ panStartY = R(0)
    /\ lastCall = NoCall
    /\ panOrigin = NoPan
    /\ canvasOps = 0

\* The connections module before any path is drawn.
RouterUnused ==
    /\ elements = <<>>
    /\ layer = <<>>
    /\ previewPath = FALSE
    /\ lastRouterOp = "none"
    /\ routerOps = 0

\* The interaction controller before any gesture.
NoDrag == [mainNodeId |-> NoNode, startX |-> 0, startY |-> 0,
           initialPositions |-> <<>>]
NoEdit == [op |-> "none", dragging |-> FALSE]

Null == [null |-> TRUE]

\* new HistoryManager(), history.js lines 8-12
HistoryConstructed ==
    [undoStack |-> <<>>, redoStack |-> <<>>, currentState |-> Null]

NoHistoryCall == [op |-> "none", prev |-> "none", before |-> HistoryConstructed]

HistoryUnused ==
    /\ history = HistoryConstructed
    /\ historyReturn = Null
    /\ historyCall = NoHistoryCall
    /\ historyOps = 0

NoMap == 0

\* app.js before init() has loaded a map.
AppUnused ==
    /\ currentMap = NoMap
    /\ saveTimeout = 0
    /\ timerCount = 0
    /\ firedTimers = {}
    /\ storedMaps = <<>>
    /\ mapCount = 0
    /\ tasks = <<>>
    /\ deletions = <<>>
    /\ appOps = 0

\* The modules beside the controller before anything calls them.
ServicesUnused == HistoryUnused /\ AppUnused

\* The controller before initNodes.
EditorIdle ==
    /\ selectedNodeId = NoNode
    /\ selectedNodeIds = {}
    /\ dragState = NoDrag
    /\ listeners = <<>>
    /\ pendingImports = <<>>
    /\ connecting = FALSE
    /\ connectionDrag = FALSE
    /\ previewStartNodeId = NoNode
    /\ elStyle = <<>>
    /\ idCounter = 0
    /\ nodeChanges = 0
    /\ changeSnapshot = <<>>
    /\ lastEdit = NoEdit
    /\ opsLeft = 0

EditorUnused == EditorIdle /\ ServicesUnused

\* A canvas nobody looks at: the container of the default window, no element.
CanvasUnused ==
    /\ CanvasConstructed
    /\ container = [left |-> 0, top |-> 0, width |-> 1400, height |-> 900]
    /\ domNodes = <<>>
    /\ RouterUnused

(***************************************************************************)
(* The maps the passes run on.                                             *)
(***************************************************************************)
\* rect.width when the viewport element is narrower than the default.
NarrowRectWidth == 1100
ViewportWidths == {DEFAULT_RECT_WIDTH, NarrowRectWidth}

Conn(f, t) == [from |-> f, to |-> t]

\* Every connection list of at most MaxConns connections between nodes
\* 1..n: self-loops, duplicates and cycles included (the AI "reorganize"
\* action pushes connections unchecked, src/js/aiAdapter.js lines 644-651).
ConnLists(n) ==
    UNION {[1..k -> {Conn(f, t) : f \in 1..n, t \in 1..n}] : k \in 0..MaxConns}

\* nodes [main, a, b, c] with main->a, main->b, main->c
StarConns == <<Conn(1, 2), Conn(1, 3), Conn(1, 4)>>
\* nodes [r1, c1, r2, c2] with r1->c1, r2->c2
TwoTreeConns == <<Conn(1, 2), Conn(3, 4)>>
\* the balanced tree: 1 root, 2 children, 2 leaves each
BalancedConns == <<Conn(1, 2), Conn(1, 3), Conn(2, 4), Conn(2, 5),
                   Conn(3, 6), Conn(3, 7)>>
\* nodes [A, B, C] with A->B, B->C, C->A
CycleConns == <<Conn(1, 2), Conn(2, 3), Conn(3, 1)>>
\* nodes [r, a, x]: x is the target of r->x, then of a->x
DiamondConns == <<Conn(1, 2), Conn(1, 3), Conn(2, 3)>>
\* nodes [r, c, p, q] with r->c; p and q point at each other, no root
\* reaches them
OrphanPairConns == <<Conn(1, 2), Conn(3, 4), Conn(4, 3)>>

\* The maps the specification's scenarios name, beside the small maps.
ScenarioMaps ==
    {[n |-> 4, cs |-> StarConns], [n |-> 4, cs |-> TwoTreeConns],
     [n |-> 7, cs |-> BalancedConns], [n |-> 3, cs |-> CycleConns],
     [n |-> 3, cs |-> DiamondConns], [n |-> 4, cs |-> OrphanPairConns]}

\* Node i of n, created at some place of the canvas: the coordinates it has
\* before the first pass (x in half pixels).
MakeNodes(n, content, mainAt) ==
    [i \in 1..n |-> [id |-> i,
                     type |-> IF i = mainAt THEN "main" ELSE "secondary",
                     content |-> content[i], x |-> 320 * i, y |-> 60 * i]]

NoSlice == [x |-> 0, width |-> 0, caller |-> NoNode]

InitMap ==
    \/ \E n \in 0..MaxNodes :
         /\ connections \in ConnLists(n)
         /\ \E content \in [1..n -> Contents], mainAt \in 0..n :
              nodes = MakeNodes(n, content, mainAt)
    \/ \E sc \in ScenarioMaps :
         /\ connections = sc.cs
         /\ \E content \in [1..sc.n -> Contents] :
              nodes = MakeNodes(sc.n, content, 1)

InitLayout ==
    /\ InitMap
    /\ rectWidth \in ViewportWidths
    /\ pc = "idle"
    /\ childrenOf = <<>>
    /\ parentOf = <<>>
    /\ roots = <<>>
    /\ positioned = {}
    /\ rootX = 0
    /\ rootIdx = 0
    /\ orphanX = 0
    /\ orphanY = 0
    /\ writes = <<>>
    /\ slice = <<>>
    /\ treeOf = <<>>
    /\ result = "none"
    /\ snapshots = <<>>
    /\ renders = 0
    /\ passes = 0
    /\ CanvasUnused
    /\ EditorUnused

Positions(ns) == [i \in 1..Len(ns) |-> [x |-> ns[i].x, y |-> ns[i].y]]

\* Faulty variant: the offset advances by half the tree width.
nextRootXHalf(x, treeWidth) == x + treeWidth

\* rootX += treeWidth, line 143 (x in half pixels).
nextRootX(x, treeWidth) == x + 2 * treeWidth

\* Faulty variant: the orphan grid starts at a fixed place of the canvas.
orphanStartFixed(x) == 2 * ORPHAN_OFFSET

\* rootX + 200, lines 148 and 155 (half pixels).
orphanStart(x) == x + 2 * ORPHAN_OFFSET

\* Faulty variant: the orphan pass places every node.
isOrphanAlways(ps, nodeId) == TRUE

\* !positioned.has(node.id), line 150.
isOrphan(ps, nodeId) == nodeId \notin ps

(***************************************************************************)
(* autoLayoutMap, lines 14-15: nothing to lay out.                         *)
(***************************************************************************)
LayoutEmpty ==
    /\ pc = "idle"
    /\ passes < MaxPasses
    /\ Len(nodes) = 0
    /\ passes' = passes + 1
    /\ result' = "noop"
    /\ UNCHANGED <<nodes, connections, rectWidth, pc, childrenOf, parentOf,
                   roots, positioned, rootX, rootIdx, orphanX, orphanY,
                   writes, slice, treeOf, snapshots, renders>>
    /\ UNCHANGED notLayout

(***************************************************************************)
(* autoLayoutMap, lines 29-63 and 136-138: build the graph, pick the       *)
(* roots, sum the root widths.                                             *)
(***************************************************************************)
LayoutStart ==
    /\ pc = "idle"
    /\ passes < MaxPasses
    /\ Len(nodes) > 0
    /\ passes' = passes + 1
    /\ LET g  == buildGraph(nodes, connections)
           rs == findRoots(nodes, g.parentOf)
           total == totalRootWidth(nodes, connections, g.childrenOf, rs)
       IN  /\ childrenOf' = g.childrenOf
           /\ parentOf' = g.parentOf
           /\ roots' = rs
           /\ positioned' = {}
           /\ writes' = [id \in NodeIds(nodes) |-> 0]
           /\ slice' = [id \in NodeIds(nodes) |-> NoSlice]
           /\ treeOf' = [id \in NodeIds(nodes) |-> 0]
           /\ rootIdx' = 1
           /\ orphanX' = 0
           /\ orphanY' = 0
           /\ IF total = Overflow
              THEN \* line 137 never returns: the promise rejects
                   /\ pc' = "idle"
                   /\ result' = "threw"
                   /\ rootX' = 0
              ELSE /\ pc' = "roots"
                   /\ result' = "running"
                   /\ rootX' = rectWidth - total
    /\ UNCHANGED <<nodes, connections, rectWidth, snapshots, renders>>
    /\ UNCHANGED notLayout

(***************************************************************************)
(* autoLayoutMap, lines 140-148: one iteration of roots.forEach; after the *)
(* last one the orphan cursor is set.                                      *)
(***************************************************************************)
LayoutRoot ==
    /\ pc = "roots"
    /\ rootIdx <= Len(roots)
    /\ LET treeWidth == getSubtreeWidth(nodes, childrenOf, roots[rootIdx],
                                        StackFrames(nodes, connections))
           st == layoutNode([nodes |-> nodes, positioned |-> positioned,
                             writes |-> writes, slice |-> slice],
                            childrenOf, connections, roots[rootIdx],
                            rootX, TOP_MARGIN, treeWidth, NoNode)
       IN  /\ nodes' = st.nodes
           /\ positioned' = st.positioned
           /\ writes' = st.writes
           /\ slice' = st.slice
           /\ treeOf' = [id \in DOMAIN treeOf |->
                            IF id \in st.positioned \ positioned
                            THEN rootIdx ELSE treeOf[id]]
           /\ rootX' = nextRootX(rootX, treeWidth)
           /\ rootIdx' = rootIdx + 1
           /\ IF rootIdx = Len(roots)
              THEN /\ pc' = "orphans"
                   /\ orphanY' = TOP_MARGIN
                   /\ orphanX' = orphanStart(rootX')
              ELSE UNCHANGED <<pc, orphanX, orphanY>>
    /\ UNCHANGED <<connections, rectWidth, childrenOf, parentOf, roots,
                   result, snapshots, renders, passes>>
    /\ UNCHANGED notLayout

(***************************************************************************)
(* autoLayoutMap, lines 149-159: the orphan pass, map.nodes.forEach.  The  *)
(* loop state `o` is what the loop mutates: the nodes' coordinates and the *)
(* cursor (with the history of the writes).                                *)
(***************************************************************************)
\* The body of the loop for node i; ps is the positioned set, rx is rootX.
orphanStep(o, i, ps, rx, width) ==
    IF isOrphan(ps, o.nodes[i].id)
    THEN LET wrap == o.orphanX + 2 * MIN_NODE_SPACING > 2 * (width - ORPHAN_OFFSET)
         IN  [nodes   |-> [o.nodes EXCEPT ![i].x = o.orphanX, ![i].y = o.orphanY],
              writes  |-> [o.writes EXCEPT ![o.nodes[i].id] = @ + 1],
              orphanX |-> IF wrap THEN orphanStart(rx)
                          ELSE o.orphanX + 2 * MIN_NODE_SPACING,
              orphanY |-> IF wrap THEN o.orphanY + LEVEL_HEIGHT ELSE o.orphanY]
    ELSE o

RECURSIVE placeOrphans(_, _, _, _, _)
placeOrphans(o, i, ps, rx, width) ==
    IF i > Len(o.nodes) THEN o
    ELSE placeOrphans(orphanStep(o, i, ps, rx, width), i + 1, ps, rx, width)

PlaceOrphans ==
    /\ pc = "orphans"
    /\ LET o == placeOrphans([nodes |-> nodes, writes |-> writes,
                              orphanX |-> orphanX, orphanY |-> orphanY],
                             1, positioned, rootX, rectWidth)
       IN  /\ nodes' = o.nodes
           /\ writes' = o.writes
           /\ orphanX' = o.orphanX
           /\ orphanY' = o.orphanY
    /\ pc' = "return"
    /\ UNCHANGED <<connections, rectWidth, childrenOf, parentOf, roots,
                   positioned, rootX, rootIdx, slice, treeOf, result,
                   snapshots, renders, passes>>
    /\ UNCHANGED notLayout

(***************************************************************************)
(* autoLayoutMap, lines 161-167: re-render and return.                     *)
(***************************************************************************)
LayoutReturn ==
    /\ pc = "return"
    /\ pc' = "idle"
    /\ result' = "success"
    /\ renders' = renders + 1
    /\ snapshots' = Append(snapshots, Positions(nodes))
    /\ UNCHANGED <<nodes, connections, rectWidth, childrenOf, parentOf, roots,
                   positioned, rootX, rootIdx, orphanX, orphanY,
                   writes, slice, treeOf, passes>>
    /\ UNCHANGED notLayout

NextLayout ==
    \/ LayoutEmpty
    \/ LayoutStart
    \/ LayoutRoot
    \/ PlaceOrphans
    \/ LayoutReturn

SpecLayout == InitLayout /\ [][NextLayout]_vars


(***************************************************************************)
(* Vocabulary of the properties.                                           *)
(***************************************************************************)
\* A pass has run to its return statement (line 167).
Returned == pc = "idle" /\ result = "success"

\* The node with a given id, and its estimated width in half pixels.
NodeOf(id) == nodes[FindNode(nodes, id)]
Width2(id) == 2 * estimateNodeWidth(nodes, id)

\* The ids that some connection from a member of S leads to.
Targets(S) ==
    {connections[k].to : k \in {j \in DOMAIN connections : connections[j].from \in S}}

RECURSIVE Closure(_, _)
Closure(S, fuel) == IF fuel = 0 THEN S ELSE Closure(S \cup Targets(S), fuel - 1)

\* Everything reachable from S along connections (S included).
ReachableFrom(S) == Closure(S, Len(connections))

\* id lies on a directed cycle of the connection list.
OnCycle(id) == id \in ReachableFrom(Targets({id}))

HasCycle == \E id \in NodeIds(nodes) : OnCycle(id)

\* Number of connections that end in id.
InDegree(id) == Cardinality({k \in DOMAIN connections : connections[k].to = id})

\* [x, x + width] of a (half pixels) ends before that of b starts.
LeftOf(a, b) == NodeOf(a).x + Width2(a) <= NodeOf(b).x

\* The node with its estimated width lies inside the slice sl.
InsideSlice(id, sl) ==
    /\ sl.x <= NodeOf(id).x
    /\ NodeOf(id).x + Width2(id) <= sl.x + 2 * sl.width

(***************************************************************************)
(* C1. autoLayoutMap terminates (returns, without a thrown error) on every *)
(* map whose connection list contains a directed cycle, and has assigned   *)
(* each node on the cycle exactly one position.                            *)
(***************************************************************************)
C1_CycleSafe ==
    (pc = "idle" /\ passes > 0 /\ HasCycle)
        => /\ result = "success"
           /\ \A id \in NodeIds(nodes) : OnCycle(id) => writes[id] = 1

(***************************************************************************)
(* C2. Whenever autoLayoutMap returns on a non-empty map, every node has   *)
(* been assigned coordinates exactly once in the pass: by layoutNode if it *)
(* is reachable from a root through childrenOf, otherwise by the orphan    *)
(* pass.                                                                   *)
(***************************************************************************)
RootSet == {roots[i] : i \in DOMAIN roots}

C2_EveryNodeOnce ==
    Returned =>
        \A id \in NodeIds(nodes) :
            /\ writes[id] = 1
            /\ (id \in ReachableFrom(RootSet)) <=> (treeOf[id] > 0)
            /\ (treeOf[id] > 0) <=> (slice[id] # NoSlice)
            /\ (treeOf[id] > 0) <=> (id \in positioned)

C2_Witness ==
    /\ Returned
    /\ \E id \in NodeIds(nodes) : treeOf[id] > 0 /\ slice[id].caller # NoNode
    /\ \E id \in NodeIds(nodes) : treeOf[id] = 0 /\ writes[id] = 1

(***************************************************************************)
(* C3. autoLayoutMap is deterministic and independent of the coordinates   *)
(* the nodes had before the call: for the same node list, connection list  *)
(* and viewport width every returned pass ends with the same positions, so *)
(* a second pass right after the first changes no position.  (The first    *)
(* pass starts from the coordinates the nodes were created with, the       *)
(* second from the coordinates the first one assigned.)                    *)
(***************************************************************************)
C3_Deterministic ==
    /\ \A i, j \in DOMAIN snapshots : snapshots[i] = snapshots[j]
    /\ (Returned /\ snapshots # <<>>) => Positions(nodes) = snapshots[1]
    /\ (pc = "idle" /\ result = "threw") => snapshots = <<>>

C3_Witness ==
    /\ Returned
    /\ Len(snapshots) = 2
    /\ Len(nodes) > 2
    /\ \A i \in DOMAIN nodes :
          snapshots[1][i] # [x |-> 320 * i, y |-> 60 * i]
    /\ \E id \in NodeIds(nodes) : treeOf[id] = 0

(***************************************************************************)
(* C4. After autoLayoutMap on any map, no two distinct nodes overlap: two  *)
(* nodes with the same y have disjoint horizontal extents                  *)
(* [x, x + estimateNodeWidth], orphan grid included.                       *)
(***************************************************************************)
C4_NoOverlap ==
    Returned =>
        \A a, b \in NodeIds(nodes) :
            (a # b /\ NodeOf(a).y = NodeOf(b).y) => (LeftOf(a, b) \/ LeftOf(b, a))

(***************************************************************************)
(* C5. On a tree-shaped map (no cycle, every node the target of at most    *)
(* one connection) the slices layoutNode gives to the children of one      *)
(* parent are pairwise disjoint, and every node of a child's subtree lies, *)
(* with its estimated width, inside that child's slice.                    *)
(***************************************************************************)
TreeShaped ==
    /\ ~HasCycle
    /\ \A id \in NodeIds(nodes) : InDegree(id) <= 1

SlicesDisjoint(a, b) ==
    \/ slice[a].x + 2 * slice[a].width <= slice[b].x
    \/ slice[b].x + 2 * slice[b].width <= slice[a].x

C5_SiblingSlices ==
    (Returned /\ TreeShaped) =>
        /\ \A a, b \in NodeIds(nodes) :
              (a # b /\ slice[a].caller # NoNode /\ slice[a].caller = slice[b].caller)
                  => SlicesDisjoint(a, b)
        /\ \A c \in NodeIds(nodes) :
              \A d \in ReachableFrom({c}) \cap NodeIds(nodes) :
                  InsideSlice(d, slice[c])

C5_Witness ==
    /\ Returned
    /\ connections = BalancedConns
    /\ NodeOf(1).content # NodeOf(4).content
    /\ NodeOf(2).content # NodeOf(3).content

(***************************************************************************)
(* C6. With several roots the root trees are laid side by side: tree i     *)
(* occupies the interval that starts at the running offset and has length  *)
(* getSubtreeWidth(root i), so the bounding boxes of two different root    *)
(* trees do not overlap horizontally.                                      *)
(***************************************************************************)
RootWidth(i) ==
    getSubtreeWidth(nodes, childrenOf, roots[i], StackFrames(nodes, connections))

\* The running offset before tree i: the trees are centred in the viewport.
RootOffset(i) ==
    rectWidth - SumSeq([k \in DOMAIN roots |-> RootWidth(k)])
        + 2 * SumSeq([k \in 1..(i - 1) |-> RootWidth(k)])

C6_RootTreesSideBySide ==
    (Returned /\ Len(roots) > 1) =>
        /\ \A id \in NodeIds(nodes) :
              treeOf[id] > 0 =>
                  InsideSlice(id, [x |-> RootOffset(treeOf[id]),
                                   width |-> RootWidth(treeOf[id])])
        /\ \A a, b \in NodeIds(nodes) :
              (treeOf[a] > 0 /\ treeOf[a] < treeOf[b]) => LeftOf(a, b)

C6_Witness ==
    /\ Returned
    /\ connections = TwoTreeConns
    /\ treeOf[2] = 1
    /\ treeOf[4] = 2
    /\ NodeOf(2).content # NodeOf(1).content

(***************************************************************************)
(* C7. For a root whose children, in connection order c1..cn, each have    *)
(* that one incoming connection only: after autoLayoutMap the children     *)
(* share one y, exactly one level height below the root, and their x       *)
(* strictly increases in connection order.                                 *)
(***************************************************************************)
C7_ChildrenInOrder ==
    Returned =>
        \A r \in RootSet :
            (\A i \in DOMAIN childrenOf[r] : InDegree(childrenOf[r][i]) = 1) =>
                /\ \A i \in DOMAIN childrenOf[r] :
                      NodeOf(childrenOf[r][i]).y = NodeOf(r).y + LEVEL_HEIGHT
                /\ \A i, j \in DOMAIN childrenOf[r] :
                      i < j => NodeOf(childrenOf[r][i]).x < NodeOf(childrenOf[r][j]).x

C7_Witness ==
    /\ Returned
    /\ connections = StarConns
    /\ NodeOf(2).content # NodeOf(3).content
    /\ NodeOf(2).x < NodeOf(3).x /\ NodeOf(3).x < NodeOf(4).x

(***************************************************************************)
(* C8. Every node the tree walk does not reach is placed by the orphan     *)
(* pass in a region that does not overlap the bounding box of the nodes    *)
(* the tree walk positioned, on the first orphan row and on every wrapped  *)
(* row: it lies to the right of every such node.                           *)
(***************************************************************************)
C8_OrphansClearOfTrees ==
    Returned =>
        \A o, t \in NodeIds(nodes) :
            (treeOf[o] = 0 /\ treeOf[t] > 0) => LeftOf(t, o)

C8_Witness ==
    /\ Returned
    /\ \E o, p \in NodeIds(nodes) :
          /\ treeOf[o] = 0 /\ treeOf[p] = 0
          /\ NodeOf(o).y = TOP_MARGIN
          /\ NodeOf(p).y > TOP_MARGIN
    /\ \E t \in NodeIds(nodes) : treeOf[t] > 0

(***************************************************************************)
(* C9 as stated: a node that is the target of more than one connection is  *)
(* placed one level below, and inside the slice of, the `from` node of the *)
(* first such connection in map.connections order.                         *)
(***************************************************************************)
FirstParent(id) ==
    connections[CHOOSE k \in DOMAIN connections :
                   /\ connections[k].to = id
                   /\ \A j \in 1..(k - 1) : connections[j].to # id].from

RootsChosen == pc # "idle" \/ result \in {"success", "threw"}

HasNoIncoming(id) == \A k \in DOMAIN connections : connections[k].to # id

IdsInOrder == [i \in DOMAIN nodes |-> nodes[i].id]

IsFirstMain(i) ==
    /\ nodes[i].type = "main"
    /\ \A j \in 1..(i - 1) : nodes[j].type # "main"

C10_Roots ==
    RootsChosen =>
        IF \E id \in NodeIds(nodes) : HasNoIncoming(id)
        THEN roots = SelectSeq(IdsInOrder, HasNoIncoming)
        ELSE /\ Len(roots) = 1
             /\ \/ \E i \in DOMAIN nodes : IsFirstMain(i) /\ roots[1] = nodes[i].id
                \/ /\ \A i \in DOMAIN nodes : nodes[i].type # "main"
                   /\ roots[1] = nodes[1].id

C10_Witness ==
    /\ Returned
    /\ \A id \in NodeIds(nodes) : ~HasNoIncoming(id)
    /\ nodes[1].type # "main"
    /\ roots # <<nodes[1].id>>

(***************************************************************************)
(* Maps with dangling connections: a connection end that is the id of no   *)
(* node of map.nodes.  The id n + 1 is the dangling one; every connection  *)
(* list of the family mentions it.  The passes are those of autoLayoutMap. *)
(***************************************************************************)
DanglingConnLists(n) ==
    {cs \in UNION {[1..k -> {Conn(f, t) : f \in 1..(n + 1), t \in 1..(n + 1)}] :
                      k \in 1..MaxConns} :
        \E k \in DOMAIN cs : cs[k].from = n + 1 \/ cs[k].to = n + 1}

InitDangling ==
    /\ \E n \in 0..MaxNodes :
         /\ connections \in DanglingConnLists(n)
         /\ \E content \in [1..n -> Contents], mainAt \in 0..n :
              nodes = MakeNodes(n, content, mainAt)
    /\ rectWidth \in ViewportWidths
    /\ pc = "idle"
    /\ childrenOf = <<>>
    /\ parentOf = <<>>
    /\ roots = <<>>
    /\ positioned = {}
    /\ rootX = 0
    /\ rootIdx = 0
    /\ orphanX = 0
    /\ orphanY = 0
    /\ writes = <<>>
    /\ slice = <<>>
    /\ treeOf = <<>>
    /\ result = "none"
    /\ snapshots = <<>>
    /\ renders = 0
    /\ passes = 0
    /\ CanvasUnused
    /\ EditorUnused

SpecDangling == InitDangling /\ [][NextLayout]_vars

\* The connection has an end that is not a node.
IsDangling(conn) ==
    conn.from \notin NodeIds(nodes) \/ conn.to \notin NodeIds(nodes)

HasDangling == \E k \in DOMAIN connections : IsDangling(connections[k])

\* The targets of the connections that join two nodes, from a member of S.
NodeTargets(S) ==
    {connections[k].to :
        k \in {j \in DOMAIN connections :
                  ~IsDangling(connections[j]) /\ connections[j].from \in S}}

RECURSIVE NodeClosure(_, _)
NodeClosure(S, fuel) ==
    IF fuel = 0 THEN S ELSE NodeClosure(S \cup NodeTargets(S), fuel - 1)

\* The connections between existing nodes contain a directed cycle.
HasNodeCycle ==
    \E id \in NodeIds(nodes) :
        id \in NodeClosure(NodeTargets({id}), Len(connections))

(***************************************************************************)
(* C11. A connection whose `from` or `to` is the id of no node never makes *)
(* autoLayoutMap throw or fail to terminate: on a map whose connections    *)
(* between existing nodes are acyclic (so that the pass returns once the   *)
(* dangling connections are removed), a pass over the map with its         *)
(* dangling connections returns as well, and every existing node has       *)
(* received a position.                                                    *)
(***************************************************************************)
C11_DanglingSkipped ==
    (pc = "idle" /\ passes > 0 /\ Len(nodes) > 0 /\ HasDangling /\ ~HasNodeCycle)
        => /\ result = "success"
           /\ \A id \in NodeIds(nodes) : writes[id] = 1

(***************************************************************************)
(* The viewport transform: the operations of src/js/canvas.js.             *)
(***************************************************************************)
MaxCanvasOps == 3

\* Pointer positions (clientX, clientY) and a document point.
ScreenPoints == {<<300, 200>>, <<700, 450>>}
DocPoints == {<<100, 50>>, <<-40, 320>>}

\* canvasContainer.getBoundingClientRect(): the whole window, or the part
\* of it beside a sidebar and below a toolbar.
Containers ==
    {[left |-> 0, top |-> 0, width |-> 1400, height |-> 900],
     [left |-> 260, top |-> 40, width |-> 1170, height |-> 780]}

\* A .node element: style.left and style.top are <<n>> for "npx" and <<>>
\* for the empty string.
El(l, t, w, h) == [left |-> l, top |-> t, offsetWidth |-> w, offsetHeight |-> h]

DomScenarios ==
    {<<>>,
     <<El(<<100>>, <<100>>, 0, 0)>>,
     <<El(<<50>>, <<0>>, 0, 0), El(<<50>>, <<480>>, 0, 0)>>,
     <<El(<<0>>, <<0>>, 480, 200)>>,
     <<El(<<>>, <<>>, 180, 60), El(<<500>>, <<420>>, 180, 60)>>,
     <<El(<<0>>, <<0>>, 180, 60), El(<<6000>>, <<3000>>, 180, 60)>>}

\* parseFloat(v) || 0
parseFloatOr0(v) == IF v = <<>> THEN 0 ELSE v[1]

\* fitToView, lines 408-420: the body of nodes.forEach.
growBox(box, el) ==
    LET x == parseFloatOr0(el.left)
        y == parseFloatOr0(el.top)
    IN  [minX |-> Min(box.minX, x), minY |-> Min(box.minY, y),
         maxX |-> Max(box.maxX, x + el.offsetWidth),
         maxY |-> Max(box.maxY, y + el.offsetHeight)]

\* The box after the first element: Math.min(Infinity, x) is x.
firstBox(el) ==
    [minX |-> parseFloatOr0(el.left), minY |-> parseFloatOr0(el.top),
     maxX |-> parseFloatOr0(el.left) + el.offsetWidth,
     maxY |-> parseFloatOr0(el.top) + el.offsetHeight]

RECURSIVE boundingBox(_, _, _)
boundingBox(els, i, box) ==
    IF i > Len(els) THEN box ELSE boundingBox(els, i + 1, growBox(box, els[i]))

\* lines 423-427
padBox(box) ==
    [minX |-> box.minX - FIT_PADDING, minY |-> box.minY - FIT_PADDING,
     maxX |-> box.maxX + FIT_PADDING, maxY |-> box.maxY + FIT_PADDING]

\* Faulty variant: the larger of the two quotients.
fitScaleMax(cw, ch, contentWidth, contentHeight) ==
    clampZoom(RMax(Rat(cw, contentWidth), Rat(ch, contentHeight)))

\* lines 439-444
fitScale(cw, ch, contentWidth, contentHeight) ==
    clampZoom(RMin(Rat(cw, contentWidth), Rat(ch, contentHeight)))

\* Faulty variant: the offset is scaled about the origin of the container.
zoomOffsetAboutOrigin(mouse, offset, scaleRatio) == RMul(offset, scaleRatio)

\* mouseX - (mouseX - offsetX) * scaleRatio, lines 232-233
zoomOffset(mouse, offset, scaleRatio) ==
    RSub(mouse, RMul(RSub(mouse, offset), scaleRatio))

\* Faulty variant: the offset at the start of the gesture is forgotten.
panStartNoOffset(x, offset) == x

\* x - offsetX, lines 195-196
panStart(x, offset) == RSub(x, offset)

Called(op, x, y) == [op |-> op, x |-> x, y |-> y, before |-> getTransform]

\* What the canvas operations leave alone.
notCanvas == <<layoutVars, routerVars, editorVars, serviceVars>>

\* zoomAt: the wheel, the zoom buttons and the pinch call it with
\* +ZOOM_STEP or -ZOOM_STEP.
ZoomAt(clientX, clientY, delta) ==
    /\ canvasOps < MaxCanvasOps
    /\ LET mouseX == RSub(clientX, R(container.left))
           mouseY == RSub(clientY, R(container.top))
           oldScale == scale
           newScale == clampZoom(RAdd(scale, delta))
           scaleRatio == RDiv(newScale, oldScale)
       IN  /\ scale' = newScale
           /\ offsetX' = zoomOffset(mouseX, offsetX, scaleRatio)
           /\ offsetY' = zoomOffset(mouseY, offsetY, scaleRatio)
    /\ lastCall' = Called("zoomAt", clientX, clientY)
    /\ canvasOps' = canvasOps + 1
    /\ UNCHANGED <<isPanning, panStartX, panStartY, container, domNodes, panOrigin>>
    /\ UNCHANGED notCanvas

StartPan(x, y) ==
    /\ canvasOps < MaxCanvasOps
    /\ isPanning' = TRUE
    /\ panStartX' = panStart(x, offsetX)
    /\ panStartY' = panStart(y, offsetY)
    /\ panOrigin' = [x |-> x, y |-> y, scale |-> scale,
                     offsetX |-> offsetX, offsetY |-> offsetY]
    /\ lastCall' = Called("startPan", x, y)
    /\ canvasOps' = canvasOps + 1
    /\ UNCHANGED <<scale, offsetX, offsetY, container, domNodes>>
    /\ UNCHANGED notCanvas

Pan(x, y) ==
    /\ canvasOps < MaxCanvasOps
    /\ IF isPanning
       THEN /\ offsetX' = RSub(x, panStartX)
            /\ offsetY' = RSub(y, panStartY)
       ELSE UNCHANGED <<offsetX, offsetY>>
    /\ lastCall' = Called("pan", x, y)
    /\ canvasOps' = canvasOps + 1
    /\ UNCHANGED <<scale, isPanning, panStartX, panStartY, container, domNodes,
                   panOrigin>>
    /\ UNCHANGED notCanvas

EndPan ==
    /\ canvasOps < MaxCanvasOps
    /\ isPanning' = FALSE
    /\ lastCall' = Called("endPan", R(0), R(0))
    /\ canvasOps' = canvasOps + 1
    /\ UNCHANGED <<scale, offsetX, offsetY, panStartX, panStartY, container,
                   domNodes, panOrigin>>
    /\ UNCHANGED notCanvas

\* The arguments of setTransform: scales beyond and below the zoom limits.
\* (Zero is left out: it makes every later quotient infinite, which the
\* rational numbers of the model do not represent.)
TransformArgs ==
    {[scale |-> R(3), offsetX |-> R(10), offsetY |-> R(-20)],
     [scale |-> Rat(1, 8), offsetX |-> R(10), offsetY |-> R(-20)]}

\* setTransform, lines 326-332
SetTransform(newScale, newOffsetX, newOffsetY) ==
    /\ canvasOps < MaxCanvasOps
    /\ scale' = newScale
    /\ offsetX' = newOffsetX
    /\ offsetY' = newOffsetY
    /\ lastCall' = Called("setTransform", newOffsetX, newOffsetY)
    /\ canvasOps' = canvasOps + 1
    /\ UNCHANGED <<isPanning, panStartX, panStartY, container, domNodes, panOrigin>>
    /\ UNCHANGED notCanvas

\* resetZoom, lines 337-343; also the body of fitToView without nodes.
resetTransform ==
    /\ scale' = R(1)
    /\ offsetX' = R(0)
    /\ offsetY' = R(0)

ResetZoom ==
    /\ canvasOps < MaxCanvasOps
    /\ resetTransform
    /\ lastCall' = Called("resetZoom", R(0), R(0))
    /\ canvasOps' = canvasOps + 1
    /\ UNCHANGED <<isPanning, panStartX, panStartY, container, domNodes, panOrigin>>
    /\ UNCHANGED notCanvas

\* centerOn, lines 348-353
CenterOn(canvasX, canvasY) ==
    /\ canvasOps < MaxCanvasOps
    /\ offsetX' = RSub(Rat(container.width, 2), RMul(canvasX, scale))
    /\ offsetY' = RSub(Rat(container.height, 2), RMul(canvasY, scale))
    /\ lastCall' = Called("centerOn", canvasX, canvasY)
    /\ canvasOps' = canvasOps + 1
    /\ UNCHANGED <<scale, isPanning, panStartX, panStartY, container, domNodes,
                   panOrigin>>
    /\ UNCHANGED notCanvas

\* fitToView, lines 399-457
FitToView ==
    /\ canvasOps < MaxCanvasOps
    /\ IF Len(domNodes) = 0
       THEN resetTransform
       ELSE LET box == padBox(boundingBox(domNodes, 2, firstBox(domNodes[1])))
                contentWidth == box.maxX - box.minX
                contentHeight == box.maxY - box.minY
                newScale == fitScale(container.width, container.height,
                                     contentWidth, contentHeight)
                centerX == Rat(box.minX + box.maxX, 2)
                centerY == Rat(box.minY + box.maxY, 2)
            IN  /\ scale' = newScale
                /\ offsetX' = RSub(Rat(container.width, 2), RMul(centerX, newScale))
                /\ offsetY' = RSub(Rat(container.height, 2), RMul(centerY, newScale))
    /\ lastCall' = Called("fitToView", R(0), R(0))
    /\ canvasOps' = canvasOps + 1
    /\ UNCHANGED <<isPanning, panStartX, panStartY, container, domNodes, panOrigin>>
    /\ UNCHANGED notCanvas

\* No layout pass has been started.
LayoutIdle ==
    /\ rectWidth = DEFAULT_RECT_WIDTH
    /\ pc = "idle"
    /\ childrenOf = <<>>
    /\ parentOf = <<>>
    /\ roots = <<>>
    /\ positioned = {}
    /\ rootX = 0
    /\ rootIdx = 0
    /\ orphanX = 0
    /\ orphanY = 0
    /\ writes = <<>>
    /\ slice = <<>>
    /\ treeOf = <<>>
    /\ result = "none"
    /\ snapshots = <<>>
    /\ renders = 0
    /\ passes = 0

\* No map is open while the canvas is used.
LayoutUnused ==
    /\ nodes = <<>>
    /\ connections = <<>>
    /\ LayoutIdle

InitCanvas ==
    /\ CanvasConstructed
    /\ container \in Containers
    /\ domNodes \in DomScenarios
    /\ LayoutUnused
    /\ RouterUnused
    /\ EditorUnused

NextCanvas ==
    \/ \E p \in ScreenPoints, delta \in {ZOOM_STEP, RNeg(ZOOM_STEP)} :
          ZoomAt(R(p[1]), R(p[2]), delta)
    \/ \E p \in ScreenPoints : StartPan(R(p[1]), R(p[2]))
    \/ \E p \in ScreenPoints : Pan(R(p[1]), R(p[2]))
    \/ EndPan
    \/ \E a \in TransformArgs : SetTransform(a.scale, a.offsetX, a.offsetY)
    \/ ResetZoom
    \/ \E q \in DocPoints : CenterOn(R(q[1]), R(q[2]))
    \/ FitToView

SpecCanvas == InitCanvas /\ [][NextCanvas]_vars

(***************************************************************************)
(* Vocabulary of the viewport properties.                                  *)
(***************************************************************************)
ValidScale(t) == RLe(MIN_ZOOM, t.scale) /\ RLe(t.scale, MAX_ZOOM)

RPoint(p) == [x |-> R(p[1]), y |-> R(p[2])]

SetMin(S) == CHOOSE v \in S : \A w \in S : v <= w
SetMax(S) == CHOOSE v \in S : \A w \in S : v >= w

\* The bounding box of all elements, stated from the elements.
ElX(el) == IF el.left = <<>> THEN 0 ELSE el.left[1]
ElY(el) == IF el.top = <<>> THEN 0 ELSE el.top[1]
Els == {domNodes[i] : i \in DOMAIN domNodes}
BoxLeft == SetMin({ElX(el) : el \in Els})
BoxRight == SetMax({ElX(el) + el.offsetWidth : el \in Els})
BoxTop == SetMin({ElY(el) : el \in Els})
BoxBottom == SetMax({ElY(el) + el.offsetHeight : el \in Els})
ContentWidth == BoxRight - BoxLeft + 2 * FIT_PADDING
ContentHeight == BoxBottom - BoxTop + 2 * FIT_PADDING

\* The centre of the container, in screen coordinates.
ContainerCentre ==
    [x |-> RAdd(R(container.left), Rat(container.width, 2)),
     y |-> RAdd(R(container.top), Rat(container.height, 2))]

(***************************************************************************)
(* C12. For every transform state with MIN_ZOOM <= scale <= MAX_ZOOM, any  *)
(* offsets and any container origin, canvasToScreen(screenToCanvas(p)) = p *)
(* for every screen point p and screenToCanvas(canvasToScreen(q)) = q for  *)
(* every document point q (in exact arithmetic).                           *)
(***************************************************************************)
C12_RoundTrip ==
    ValidScale(getTransform) =>
        /\ \A p \in ScreenPoints :
              LET c == screenToCanvas(getTransform, container, R(p[1]), R(p[2]))
              IN  canvasToScreen(getTransform, container, c.x, c.y) = RPoint(p)
        /\ \A q \in DocPoints :
              LET c == canvasToScreen(getTransform, container, R(q[1]), R(q[2]))
              IN  screenToCanvas(getTransform, container, c.x, c.y) = RPoint(q)

C12_Witness ==
    /\ ValidScale(getTransform)
    /\ scale # R(1)
    /\ offsetX.d > 1
    /\ offsetY.n < 0
    /\ container.left > 0

(***************************************************************************)
(* C13. The document point under the pointer is the same right before and  *)
(* right after zoomAt(p, delta): screenToCanvas(p) evaluated with the      *)
(* transform the call started from equals screenToCanvas(p) evaluated with *)
(* the transform it left, also when the new scale was clamped.             *)
(***************************************************************************)
C13_ZoomAnchored ==
    lastCall.op = "zoomAt" =>
        screenToCanvas(lastCall.before, container, lastCall.x, lastCall.y)
            = screenToCanvas(getTransform, container, lastCall.x, lastCall.y)

\* A zoom step from 1.95 that the upper limit cut short.
C13_Witness ==
    /\ lastCall.op = "zoomAt"
    /\ lastCall.before.scale = Rat(39, 20)
    /\ scale = MAX_ZOOM
    /\ offsetX # lastCall.before.offsetX

(***************************************************************************)
(* C14. In every state reachable by zoomAt, pan, setTransform, resetZoom,  *)
(* centerOn and fitToView calls, MIN_ZOOM <= scale <= MAX_ZOOM.            *)
(***************************************************************************)
C14_ScaleClamped == ValidScale(getTransform)

(***************************************************************************)
(* C15. Within a pan gesture begun by startPan(x0, y0), pan(x, y) sets the *)
(* offsets to their values at startPan plus (x - x0, y - y0), whatever the *)
(* zoom, and leaves scale unchanged; pan outside a gesture changes         *)
(* nothing.                                                                *)
(***************************************************************************)
C15_PanFollowsPointer ==
    lastCall.op = "pan" =>
        /\ scale = lastCall.before.scale
        /\ IF isPanning
           THEN /\ offsetX = RAdd(panOrigin.offsetX, RSub(lastCall.x, panOrigin.x))
                /\ offsetY = RAdd(panOrigin.offsetY, RSub(lastCall.y, panOrigin.y))
           ELSE /\ offsetX = lastCall.before.offsetX
                /\ offsetY = lastCall.before.offsetY

C15_Witness ==
    /\ lastCall.op = "pan"
    /\ isPanning
    /\ scale # R(1)
    /\ panOrigin.offsetX # R(0)
    /\ lastCall.x # panOrigin.x
    /\ offsetX # lastCall.before.offsetX

(***************************************************************************)
(* C16. fitToView with at least one node sets scale to the smaller of      *)
(* containerWidth / contentWidth and containerHeight / contentHeight,      *)
(* clamped to the zoom limits, where the content is the bounding box of    *)
(* all nodes grown by the padding on every side, and sets the offsets so  *)
(* that the centre of that box is shown at the centre of the container;    *)
(* with no node it resets the transform to scale 1, offsets 0.             *)
(***************************************************************************)
\* f is the largest factor by which the content still fits the container.
IsFit(f) ==
    /\ RLe(RMul(f, R(ContentWidth)), R(container.width))
    /\ RLe(RMul(f, R(ContentHeight)), R(container.height))
    /\ \/ RMul(f, R(ContentWidth)) = R(container.width)
       \/ RMul(f, R(ContentHeight)) = R(container.height)

C16_FitToView ==
    lastCall.op = "fitToView" =>
        IF Len(domNodes) = 0
        THEN scale = R(1) /\ offsetX = R(0) /\ offsetY = R(0)
        ELSE /\ \E f \in {Rat(container.width, ContentWidth),
                          Rat(container.height, ContentHeight)} :
                    IsFit(f) /\ scale = clampZoom(f)
             /\ canvasToScreen(getTransform, container,
                               Rat(BoxLeft + BoxRight, 2), Rat(BoxTop + BoxBottom, 2))
                    = ContainerCentre

C16_Witness ==
    /\ lastCall.op = "fitToView"
    /\ Len(domNodes) > 1
    /\ RLt(MIN_ZOOM, scale) /\ RLt(scale, MAX_ZOOM)
    /\ scale # R(1)
    /\ lastCall.before.scale # scale
    /\ container.left > 0

(***************************************************************************)
(* C17. When the bounding box of all nodes has zero width or zero height,  *)
(* fitToView divides by no zero and sets scale to the default value 1.     *)
(***************************************************************************)
C17_DegenerateBoxScaleOne ==
    (/\ lastCall.op = "fitToView"
     /\ Len(domNodes) > 0
     /\ (BoxRight = BoxLeft \/ BoxBottom = BoxTop))
        => /\ ContentWidth # 0
           /\ ContentHeight # 0
           /\ scale = R(1)

(***************************************************************************)
(* The edge router, src/js/connections.js (lines 218-529).  Rectangles are *)
(* in screen pixels, path coordinates relative to the canvas container.    *)
(***************************************************************************)
Rect(l, t, w, h) == [left |-> l, top |-> t, width |-> w, height |-> h]

\* document.getElementById(id): the element's rectangle, NoElement if the
\* document has no such element.
NoElement == [left |-> 0, top |-> 0, width |-> -1, height |-> -1]
getElementById(els, id) == IF id \in DOMAIN els THEN els[id] ELSE NoElement

\* rect.left + rect.width / 2 - containerRect.left, lines 350-351
centreOf(rect, containerRect) ==
    [cx |-> RSub(RAdd(R(rect.left), Rat(rect.width, 2)), R(containerRect.left)),
     cy |-> RSub(RAdd(R(rect.top), Rat(rect.height, 2)), R(containerRect.top))]

RAbs(a) == [n |-> Abs(a.n), d |-> a.d]
RPos(a) == a.n > 0

\* Faulty variant: a tie counts as horizontal.
isHorizontalOrTie(dx, dy) == RLe(RAbs(dy), RAbs(dx))

\* Math.abs(dx) > Math.abs(dy), line 369
isHorizontal(dx, dy) == RLt(RAbs(dy), RAbs(dx))

\* Faulty variant: the anchor is the centre of the node.
getAnchorPointCentre(nodeRect, targetRect, containerRect) ==
    [x |-> centreOf(nodeRect, containerRect).cx,
     y |-> centreOf(nodeRect, containerRect).cy, side |-> "right"]

\* getAnchorPoint, lines 348-384.  The target is a rectangle, or a point
\* {x, y} (the pointer, for the preview).
getAnchorPoint(nodeRect, targetRect, containerRect) ==
    LET from == centreOf(nodeRect, containerRect)
        to == IF "left" \in DOMAIN targetRect
              THEN centreOf(targetRect, containerRect)
              ELSE [cx |-> targetRect.x, cy |-> targetRect.y]
        dx == RSub(to.cx, from.cx)
        dy == RSub(to.cy, from.cy)
        halfW == Rat(nodeRect.width, 2)
        halfH == Rat(nodeRect.height, 2)
    IN  IF isHorizontal(dx, dy)
        THEN [x |-> IF RPos(dx) THEN RAdd(from.cx, halfW) ELSE RSub(from.cx, halfW),
              y |-> from.cy,
              side |-> IF RPos(dx) THEN "right" ELSE "left"]
        ELSE [x |-> from.cx,
              y |-> IF RPos(dy) THEN RAdd(from.cy, halfH) ELSE RSub(from.cy, halfH),
              side |-> IF RPos(dy) THEN "bottom" ELSE "top"]

\* Math.min(distance * 0.35, 100) with distance = Math.sqrt(sq), lines
\* 393-398.  The square root is kept symbolic: the value is 100 when capped
\* and 0.35 * sqrt(sq) otherwise; capped iff 0.35 * sqrt(sq) >= 100.
curvatureOf(dx, dy) ==
    LET sq == RAdd(RMul(dx, dx), RMul(dy, dy))
    IN  [sq |-> sq, capped |-> RLe(R(4000000), RMul(R(49), sq))]

\* A control point (x + dirX * curvature, y + dirY * curvature), lines
\* 400-423; a point without a side is moved along x, by the sign of dx.
controlPoint(p, dx, curvature, isStart) ==
    LET side == IF "side" \in DOMAIN p THEN p.side ELSE "none"
        fallback == IF isStart THEN (IF RPos(dx) THEN 1 ELSE -1)
                    ELSE (IF RPos(dx) THEN -1 ELSE 1)
    IN  [x |-> p.x, y |-> p.y, curvature |-> curvature,
         dirX |-> IF side = "left" THEN -1 ELSE IF side = "right" THEN 1
                  ELSE IF side = "none" THEN fallback ELSE 0,
         dirY |-> IF side = "top" THEN -1 ELSE IF side = "bottom" THEN 1 ELSE 0]

\* createBezierPath, lines 392-426: M from C cp1, cp2, to
createBezierPath(from, to) ==
    LET dx == RSub(to.x, from.x)
        dy == RSub(to.y, from.y)
        curvature == curvatureOf(dx, dy)
    IN  [M |-> [x |-> from.x, y |-> from.y],
         C |-> <<controlPoint(from, dx, curvature, TRUE),
                 controlPoint(to, dx, curvature, FALSE),
                 [x |-> to.x, y |-> to.y]>>]

\* createConnectionPath returns null.
NoPath == [class |-> "null"]

\* createConnectionPath, lines 287-339
createConnectionPath(conn, containerRect, els) ==
    LET fromEl == getElementById(els, conn.from)
        toEl == getElementById(els, conn.to)
    IN  IF fromEl = NoElement \/ toEl = NoElement THEN NoPath
        ELSE [class |-> "connection-path",
              d |-> createBezierPath(getAnchorPoint(fromEl, toEl, containerRect),
                                     getAnchorPoint(toEl, fromEl, containerRect)),
              from |-> conn.from, to |-> conn.to, id |-> conn.id]

\* The path startConnectionPreview appends, lines 453-456.
PreviewPathElement ==
    [class |-> "connection-path preview",
     d |-> [M |-> [x |-> R(0), y |-> R(0)], C |-> <<>>],
     from |-> NoNode, to |-> NoNode, id |-> NoNode]

isPreview(el) == el.class = "connection-path preview"

\* Faulty variant: the paths of the previous call are left in the layer.
clearPathsNever(lay) == lay

\* querySelectorAll('.connection-path:not(.preview)') ... remove(), lines 265-266
clearPaths(lay) == SelectSeq(lay, isPreview)

\* map.connections.forEach, lines 272-277
RECURSIVE drawConnections(_, _, _, _)
drawConnections(lay, cs, containerRect, els) ==
    IF cs = <<>> THEN lay
    ELSE LET path == createConnectionPath(Head(cs), containerRect, els)
         IN  drawConnections(IF path # NoPath THEN Append(lay, path) ELSE lay,
                             Tail(cs), containerRect, els)

MaxRouterOps == 3
MaxRouterConns == 2

\* Node rectangles on the screen.  Seen from NodeA: NodeRight lies to the
\* right (|dx| > |dy|), NodeBelow straight below (dx = 0), NodeDiagDown and
\* NodeDiagLeft on the diagonals (|dx| = |dy|), NodeInside has the same
\* centre.
NodeA == Rect(300, 200, 180, 60)
NodeRight == Rect(700, 220, 181, 61)
NodeBelow == Rect(310, 500, 160, 60)
NodeDiagDown == Rect(500, 400, 180, 60)
NodeDiagLeft == Rect(100, 400, 180, 60)
NodeInside == Rect(330, 210, 120, 40)

\* The node elements in the document: id -> rectangle.
Placements ==
    {(1 :> NodeA @@ 2 :> NodeRight @@ 3 :> NodeBelow),
     (1 :> NodeA @@ 2 :> NodeDiagDown @@ 3 :> NodeDiagLeft),
     (1 :> NodeA @@ 2 :> NodeInside @@ 3 :> NodeRight),
     (1 :> NodeA @@ 2 :> NodeRight)}

\* A connection of map.connections: {id, from, to}.
ConnWithId(id, f, t) == [id |-> id, from |-> f, to |-> t]

RouterPairs == {<<1, 2>>, <<2, 1>>, <<2, 3>>, <<3, 1>>}

RouterConnLists ==
    {[k \in DOMAIN ps |-> ConnWithId(100 + k, ps[k][1], ps[k][2])] :
        ps \in UNION {[1..n -> RouterPairs] : n \in 0..MaxRouterConns}}

InitRouter ==
    /\ nodes = <<>>
    /\ connections \in RouterConnLists
    /\ LayoutIdle
    /\ CanvasConstructed
    /\ container \in Containers
    /\ domNodes = <<>>
    /\ elements \in Placements
    /\ previewPath \in BOOLEAN
    /\ layer = IF previewPath THEN <<PreviewPathElement>> ELSE <<>>
    /\ lastRouterOp = "none"
    /\ routerOps = 0
    /\ EditorUnused

\* What the router leaves alone (it writes map.connections in
\* deleteConnection).
notRouter == <<nodes, rectWidth, pc, childrenOf, parentOf, roots, positioned,
               rootX, rootIdx, orphanX, orphanY, writes, slice, treeOf, result,
               snapshots, renders, passes, canvasVars, editorVars, serviceVars>>

\* updateConnections, lines 259-278
UpdateConnections ==
    /\ routerOps < MaxRouterOps
    /\ layer' = drawConnections(clearPaths(layer), connections, container, elements)
    /\ lastRouterOp' = "updateConnections"
    /\ routerOps' = routerOps + 1
    /\ UNCHANGED <<connections, elements, previewPath>>
    /\ UNCHANGED notRouter

\* A node is deleted: its element leaves the document (the connection list
\* and the layer are brought up to date by later calls).
RemoveElement(id) ==
    /\ routerOps < MaxRouterOps
    /\ id \in DOMAIN elements
    /\ elements' = [e \in DOMAIN elements \ {id} |-> elements[e]]
    /\ lastRouterOp' = "removeElement"
    /\ routerOps' = routerOps + 1
    /\ UNCHANGED <<connections, layer, previewPath>>
    /\ UNCHANGED notRouter

\* A node is dragged: its rectangle changes.
MoveElement(id, rect) ==
    /\ routerOps < MaxRouterOps
    /\ id \in DOMAIN elements
    /\ elements[id] # rect
    /\ elements' = [elements EXCEPT ![id] = rect]
    /\ lastRouterOp' = "moveElement"
    /\ routerOps' = routerOps + 1
    /\ UNCHANGED <<connections, layer, previewPath>>
    /\ UNCHANGED notRouter

\* Remove the first child of the layer with the given id.
RECURSIVE removeById(_, _)
removeById(lay, id) ==
    IF lay = <<>> THEN <<>>
    ELSE IF Head(lay).id = id THEN Tail(lay)
    ELSE <<Head(lay)>> \o removeById(Tail(lay), id)

\* deleteConnection, lines 431-443 (right click on a path)
DeleteConnection(connectionId) ==
    /\ routerOps < MaxRouterOps
    /\ \E k \in DOMAIN connections : connections[k].id = connectionId
    /\ LET index == CHOOSE k \in DOMAIN connections :
                       /\ connections[k].id = connectionId
                       /\ \A j \in 1..(k - 1) : connections[j].id # connectionId
       IN  connections' = [k \in 1..(Len(connections) - 1) |->
                              IF k < index THEN connections[k] ELSE connections[k + 1]]
    /\ layer' = removeById(layer, connectionId)
    /\ lastRouterOp' = "deleteConnection"
    /\ routerOps' = routerOps + 1
    /\ UNCHANGED <<elements, previewPath>>
    /\ UNCHANGED notRouter

\* The contextmenu listener of the k-th child of the layer, lines 332-336.
PathContextMenu(k) ==
    /\ ~isPreview(layer[k])
    /\ DeleteConnection(layer[k].id)

NextRouter ==
    \/ UpdateConnections
    \/ \E id \in 1..3 : RemoveElement(id)
    \/ MoveElement(2, NodeDiagDown)
    \/ \E k \in DOMAIN layer : PathContextMenu(k)

SpecRouter == InitRouter /\ [][NextRouter]_vars

(***************************************************************************)
(* Vocabulary of the router properties.                                    *)
(***************************************************************************)
Updated == lastRouterOp = "updateConnections"

\* The drawn paths: the children of the layer that are not the preview.
DrawnPaths == SelectSeq(layer, LAMBDA el : ~isPreview(el))

\* The midpoint of a side of a rectangle, relative to the container.
SideMid(rect, side) ==
    LET l == R(rect.left - container.left)
        t == R(rect.top - container.top)
    IN  CASE side = "left" -> [x |-> l, y |-> RAdd(t, Rat(rect.height, 2))]
          [] side = "right" -> [x |-> RAdd(l, R(rect.width)),
                                y |-> RAdd(t, Rat(rect.height, 2))]
          [] side = "top" -> [x |-> RAdd(l, Rat(rect.width, 2)), y |-> t]
          [] side = "bottom" -> [x |-> RAdd(l, Rat(rect.width, 2)),
                                 y |-> RAdd(t, R(rect.height))]

\* Twice the centre-to-centre offsets from rectangle a to rectangle b.
Dx2(a, b) == (2 * b.left + b.width) - (2 * a.left + a.width)
Dy2(a, b) == (2 * b.top + b.height) - (2 * a.top + a.height)

PathStart(p) == p.d.M
PathEnd(p) == p.d.C[3]

\* The path runs from the midpoint of side sa of a to that of side sb of b.
Joins(p, a, sa, b, sb) ==
    PathStart(p) = SideMid(a, sa) /\ PathEnd(p) = SideMid(b, sb)

PositiveSize(r) == r.width > 0 /\ r.height > 0

(***************************************************************************)
(* C18. For two nodes with distinct centres and positive sizes the path    *)
(* of a connection starts at the midpoint of the side of the `from` node   *)
(* that faces the `to` node and ends at the midpoint of the side of the    *)
(* `to` node that faces the `from` node: right/left when `to` lies to the  *)
(* right, left/right when to the left, bottom/top when below, top/bottom   *)
(* when above.                                                             *)
(***************************************************************************)
C18_AnchorsOnFacingSides ==
    Updated =>
        \A k \in DOMAIN DrawnPaths :
            LET p == DrawnPaths[k]
                a == elements[p.from]
                b == elements[p.to]
            IN  (/\ PositiveSize(a) /\ PositiveSize(b)
                 /\ (Dx2(a, b) # 0 \/ Dy2(a, b) # 0))
                    => \/ Dx2(a, b) > 0 /\ Joins(p, a, "right", b, "left")
                       \/ Dx2(a, b) < 0 /\ Joins(p, a, "left", b, "right")
                       \/ Dy2(a, b) > 0 /\ Joins(p, a, "bottom", b, "top")
                       \/ Dy2(a, b) < 0 /\ Joins(p, a, "top", b, "bottom")

C18_Witness ==
    /\ Updated
    /\ container.left > 0
    /\ DOMAIN elements = {1, 2, 3}
    /\ \E k \in DOMAIN DrawnPaths :
          Joins(DrawnPaths[k], elements[1], "right", elements[2], "left")
    /\ \E k \in DOMAIN DrawnPaths :
          Joins(DrawnPaths[k], elements[3], "top", elements[1], "bottom")

(***************************************************************************)
(* C19 as stated: when |dx| = |dy| (not both zero) the connection is       *)
(* classified horizontal and the anchor is a left-side or right-side one.  *)
(***************************************************************************)
IsTie(a, b) == Abs(Dx2(a, b)) = Abs(Dy2(a, b)) /\ Dx2(a, b) # 0

C19_TieHorizontal ==
    Updated =>
        \A k \in DOMAIN DrawnPaths :
            LET p == DrawnPaths[k]
                a == elements[p.from]
                b == elements[p.to]
            IN  IsTie(a, b) =>
                    PathStart(p) \in {SideMid(a, "left"), SideMid(a, "right")}

(***************************************************************************)
(* C19 as amended: when |dx| = |dy| (not both zero) the connection is      *)
(* classified vertical: the anchor of a node is the midpoint of its bottom *)
(* side when the other centre lies below (dy > 0) and of its top side when *)
(* it lies above.                                                          *)
(***************************************************************************)
C19_TieVertical ==
    Updated =>
        \A k \in DOMAIN DrawnPaths :
            LET p == DrawnPaths[k]
                a == elements[p.from]
                b == elements[p.to]
            IN  IsTie(a, b) =>
                    IF Dy2(a, b) > 0 THEN Joins(p, a, "bottom", b, "top")
                    ELSE Joins(p, a, "top", b, "bottom")

C19_Witness ==
    /\ Updated
    /\ \E j, k \in DOMAIN DrawnPaths :
          /\ IsTie(elements[DrawnPaths[j].from], elements[DrawnPaths[j].to])
          /\ PathStart(DrawnPaths[j]) = SideMid(elements[DrawnPaths[j].from], "bottom")
          /\ IsTie(elements[DrawnPaths[k].from], elements[DrawnPaths[k].to])
          /\ PathStart(DrawnPaths[k]) = SideMid(elements[DrawnPaths[k].from], "top")

(***************************************************************************)
(* C20. updateConnections draws no path for a connection whose `from` or   *)
(* `to` node has no element: createConnectionPath returns null for it, and *)
(* after updateConnections the layer holds exactly one non-preview path    *)
(* for each connection whose two end points exist, in connection order,    *)
(* none for the others, and the preview path if there was one.             *)
(***************************************************************************)
HasBothEnds(conn) == conn.from \in DOMAIN elements /\ conn.to \in DOMAIN elements

C20_NoPathForMissingNode ==
    /\ \A k \in DOMAIN connections :
          ~HasBothEnds(connections[k])
              => createConnectionPath(connections[k], container, elements) = NoPath
    /\ Updated =>
          /\ [k \in DOMAIN DrawnPaths |-> DrawnPaths[k].id]
                = [k \in DOMAIN SelectSeq(connections, HasBothEnds) |->
                      SelectSeq(connections, HasBothEnds)[k].id]
          /\ \A k \in DOMAIN DrawnPaths :
                \E j \in DOMAIN connections :
                    /\ connections[j].id = DrawnPaths[k].id
                    /\ connections[j].from = DrawnPaths[k].from
                    /\ connections[j].to = DrawnPaths[k].to
          /\ Len(layer) = Len(DrawnPaths) + (IF previewPath THEN 1 ELSE 0)

C20_Witness ==
    /\ Updated
    /\ previewPath
    /\ \E k \in DOMAIN connections : ~HasBothEnds(connections[k])
    /\ Len(DrawnPaths) = 1
    /\ Len(connections) = 2

(***************************************************************************)
(* C21. Every position mutation is followed by a content-changed signal    *)
(* to the auto-save collaborator (onNodeChange).  For the layout engine:   *)
(* once autoLayoutMap has rewritten the positions of the nodes and         *)
(* returned, onNodeChange has been called.                                 *)
(***************************************************************************)
PositionsRewritten == \E id \in DOMAIN writes : writes[id] > 0

C21_LayoutSignalsChange ==
    (Returned /\ PositionsRewritten) => nodeChanges > 0

(***************************************************************************)
(* The interaction controller, src/js/nodes.js (lines 1-1267), with the    *)
(* preview of src/js/connections.js (lines 449-498) and the constructors   *)
(* of the schema (src/js/history.js, lines 113-170).  An event handler     *)
(* runs to completion; it is a function from the state of the modules      *)
(* (the record Ed) to their state.  Left out as presentation: the CSS      *)
(* classes "selected" and "dragging", the toolbars, the phantom node, the  *)
(* toasts and the edit mode.  selectedNodeIds is a Set without its         *)
(* insertion order: the handlers that iterate it visit the ids in          *)
(* ascending order.                                                        *)
(***************************************************************************)
NodeElWidth == 160
NodeElHeight == 80

\* idMapping.get(id) of an id without entry: undefined
UndefinedId == -2

\* Math.round: the nearest integer, a half rounds up
MathRound(a) == (2 * a.n + a.d) \div (2 * a.d)

ToInt(a) == a.n \div a.d

\* The module state the handlers read and write.
Ed == [nodes |-> nodes, connections |-> connections,
       selectedNodeId |-> selectedNodeId, selectedNodeIds |-> selectedNodeIds,
       dragState |-> dragState, listeners |-> listeners,
       pendingImports |-> pendingImports, connecting |-> connecting,
       previewStartNodeId |-> previewStartNodeId, previewPath |-> previewPath,
       layer |-> layer, elStyle |-> elStyle, idCounter |-> idCounter,
       nodeChanges |-> nodeChanges, changeSnapshot |-> changeSnapshot]

\* createNode and createConnection of the schema; generateId hands out a
\* fresh id (nodes: small integers, connections: 100 and up).
createNode(id, type, x, y) == [id |-> id, type |-> type, x |-> x, y |-> y]
createConnection(id, fromId, toId) == ConnWithId(100 + id, fromId, toId)

\* getBoundingClientRect() of a node element with the given style: the
\* nodes layer is drawn under the viewport transform.
boundingClientRect(style) ==
    LET p == canvasToScreen(getTransform, container, style.left, style.top)
    IN  Rect(ToInt(p.x), ToInt(p.y), ToInt(RMul(scale, R(NodeElWidth))),
             ToInt(RMul(scale, R(NodeElHeight))))

domRects(styles) == [id \in DOMAIN styles |-> boundingClientRect(styles[id])]

\* onNodeChange?.()
onNodeChange(st) ==
    [st EXCEPT !.nodeChanges = @ + 1, !.changeSnapshot = st.nodes]

\* The paths updateConnections draws from the connections and the node
\* styles of this moment.  No handler reads them, so they are worked out
\* when the handler has returned (drawPending).
PendingPaths(cs, styles) ==
    [class |-> "pending", connections |-> cs, elStyle |-> styles]

\* updateConnections(currentMap), connections.js lines 259-278: the old
\* paths are removed and the paths of all connections appended
updateConnections(st) ==
    [st EXCEPT !.layer = Append(clearPaths(@),
                                PendingPaths(st.connections, st.elStyle))]

\* The layer with the pending paths drawn, lines 272-277.
drawPending(lay) ==
    LET pending == {i \in DOMAIN lay : lay[i].class = "pending"}
    IN  IF pending = {} THEN lay
        ELSE LET i == CHOOSE j \in pending : TRUE
             IN  SubSeq(lay, 1, i - 1)
                   \o drawConnections(<<>>, lay[i].connections, container,
                                      domRects(lay[i].elStyle))
                   \o SubSeq(lay, i + 1, Len(lay))

\* renderNode, lines 124-180
renderNode(st, node) ==
    [st EXCEPT !.elStyle = (node.id :> [left |-> R(node.x), top |-> R(node.y)]) @@ @]

\* el.remove()
removeEl(styles, id) == [i \in DOMAIN styles \ {id} |-> styles[i]]

\* selectNode, lines 953-969
selectNode(st, nodeId) ==
    [st EXCEPT !.selectedNodeIds = IF nodeId # NoNode THEN {nodeId} ELSE {},
               !.selectedNodeId = nodeId]

\* toggleSelection, lines 974-985
toggleSelection(st, nodeId) ==
    IF nodeId \in st.selectedNodeIds
    THEN [st EXCEPT !.selectedNodeIds = @ \ {nodeId},
                    !.selectedNodeId = IF @ = nodeId THEN NoNode ELSE @]
    ELSE [st EXCEPT !.selectedNodeIds = @ \cup {nodeId},
                    !.selectedNodeId = nodeId]

\* The ids of a Set, in the order the handlers visit them.
RECURSIVE IdSeq(_)
IdSeq(S) ==
    IF S = {} THEN <<>>
    ELSE LET m == CHOOSE x \in S : \A y \in S : x <= y
         IN  <<m>> \o IdSeq(S \ {m})

\* addNodeAtLocation, lines 1109-1136; x and y are rationals.
addNodeAtLocation(st, x, y) ==
    LET hasMain == \E i \in DOMAIN st.nodes : st.nodes[i].type = "main"
        node == createNode(st.idCounter + 1,
                           IF ~hasMain THEN "main" ELSE "secondary",
                           MathRound(x), MathRound(y))
        st1 == [st EXCEPT !.nodes = Append(@, node), !.idCounter = @ + 1]
    IN  onNodeChange(selectNode(renderNode(st1, node), node.id))

removeNode(ns, nodeId) == SelectSeq(ns, LAMBDA n : n.id # nodeId)
withoutNode(cs, nodeId) == SelectSeq(cs, LAMBDA c : c.from # nodeId /\ c.to # nodeId)

\* deleteNode, lines 1141-1151
deleteNode(st, nodeId) ==
    IF FindNode(st.nodes, nodeId) = NoNode THEN st
    ELSE onNodeChange(updateConnections(
             [st EXCEPT !.nodes = removeNode(@, nodeId),
                        !.connections = withoutNode(@, nodeId),
                        !.elStyle = removeEl(@, nodeId),
                        !.selectedNodeId = IF @ = nodeId THEN NoNode ELSE @]))

\* idsToDelete.forEach, lines 1077-1088
RECURSIVE deleteEach(_, _)
deleteEach(st, ids) ==
    IF ids = <<>> THEN st
    ELSE deleteEach([st EXCEPT !.elStyle = removeEl(@, Head(ids)),
                               !.nodes = removeNode(@, Head(ids)),
                               !.connections = withoutNode(@, Head(ids))],
                    Tail(ids))

\* deleteSelectedNodes, lines 1072-1093
deleteSelectedNodes(st) ==
    IF st.selectedNodeIds = {} THEN st
    ELSE onNodeChange(updateConnections(
             selectNode(deleteEach(st, IdSeq(st.selectedNodeIds)), NoNode)))

mapGet(m, k) == IF k \in DOMAIN m THEN m[k] ELSE UndefinedId

\* selectedNodeIds.forEach, lines 798-813: the copies and the idMapping
RECURSIVE duplicateNodes(_, _, _)
duplicateNodes(ns, ids, acc) ==
    IF ids = <<>> THEN acc
    ELSE LET i == FindNode(ns, Head(ids))
         IN  IF i = NoNode THEN duplicateNodes(ns, Tail(ids), acc)
             ELSE LET newNode == createNode(acc.idCounter + 1, ns[i].type,
                                            ns[i].x, ns[i].y)
                  IN  duplicateNodes(ns, Tail(ids),
                          [newNodes |-> Append(acc.newNodes, newNode),
                           idMapping |-> (Head(ids) :> newNode.id) @@ acc.idMapping,
                           idCounter |-> acc.idCounter + 1])

\* currentMap.connections.forEach, lines 816-824
RECURSIVE duplicateConnections(_, _, _, _)
duplicateConnections(cs, selected, idMapping, acc) ==
    IF cs = <<>> THEN acc
    ELSE duplicateConnections(Tail(cs), selected, idMapping,
             IF Head(cs).from \in selected /\ Head(cs).to \in selected
             THEN [newConnections |->
                       Append(acc.newConnections,
                              createConnection(acc.idCounter + 1,
                                               mapGet(idMapping, Head(cs).from),
                                               mapGet(idMapping, Head(cs).to))),
                   idCounter |-> acc.idCounter + 1]
             ELSE acc)

RECURSIVE renderNodes(_, _)
renderNodes(st, ns) ==
    IF ns = <<>> THEN st ELSE renderNodes(renderNode(st, Head(ns)), Tail(ns))

\* duplicateSelectedNodes, lines 790-842
duplicateSelectedNodes(st) ==
    IF st.selectedNodeIds = {} THEN st
    ELSE LET dn == duplicateNodes(st.nodes, IdSeq(st.selectedNodeIds),
                                  [newNodes |-> <<>>, idMapping |-> <<>>,
                                   idCounter |-> st.idCounter])
             dc == duplicateConnections(st.connections, st.selectedNodeIds,
                                        dn.idMapping,
                                        [newConnections |-> <<>>,
                                         idCounter |-> dn.idCounter])
             st1 == [st EXCEPT !.nodes = @ \o dn.newNodes,
                               !.connections = @ \o dc.newConnections,
                               !.idCounter = dc.idCounter]
             st2 == selectNode(renderNodes(st1, dn.newNodes), NoNode)
         IN  updateConnections(
                 [st2 EXCEPT !.selectedNodeIds = NodeIds(dn.newNodes)])

\* A listener of the document; key tells the closures of one call from
\* those of another.
Listener(event, fn, key, from) ==
    [event |-> event, fn |-> fn, key |-> key, from |-> from]

freshKey(ls) ==
    IF ls = <<>> THEN 1
    ELSE 1 + (CHOOSE k \in {ls[i].key : i \in DOMAIN ls} :
                 \A i \in DOMAIN ls : ls[i].key <= k)

removeListeners(ls, key) == SelectSeq(ls, LAMBDA l : l.key # key)

\* parseFloat(el.style.left) || data.x
parseFloatOr(v, d) == IF v = R(0) THEN R(d) ELSE v

\* Faulty variant: a drag is started whether or not one is active.
dragActiveNever(st) == FALSE

\* if (dragState) return, line 848
dragActive(st) == st.dragState # NoDrag

\* startDrag, lines 847-948; e is the mousedown event
startDrag(st, e, nodeId) ==
    IF dragActive(st) THEN st
    ELSE LET st1 == IF e.altKey THEN duplicateSelectedNodes(st) ELSE st
             ids == {id \in st1.selectedNodeIds :
                        id \in DOMAIN st1.elStyle /\ FindNode(st1.nodes, id) # NoNode}
             initialPositions ==
                 [id \in ids |->
                     LET data == st1.nodes[FindNode(st1.nodes, id)]
                     IN  [startX |-> parseFloatOr(st1.elStyle[id].left, data.x),
                          startY |-> parseFloatOr(st1.elStyle[id].top, data.y)]]
             key == freshKey(st1.listeners)
         IN  IF nodeId \notin st1.selectedNodeIds /\ ~e.altKey THEN st1
             ELSE [st1 EXCEPT
                      !.dragState = [mainNodeId |-> nodeId,
                                     startX |-> e.clientX, startY |-> e.clientY,
                                     initialPositions |-> initialPositions],
                      !.listeners = @ \o <<Listener("mousemove", "drag", key, NoNode),
                                           Listener("mouseup", "drag", key, NoNode)>>]

\* The mousedown listener of a node element, lines 190-230
nodeMouseDown(st, e, nodeId) ==
    LET st1 == IF e.shiftKey THEN toggleSelection(st, nodeId)
               ELSE IF nodeId \notin st.selectedNodeIds THEN selectNode(st, nodeId)
               ELSE [st EXCEPT !.selectedNodeId = nodeId]
    IN  startDrag(st1, e, nodeId)

\* (clientX - dragState.startX) / scale, lines 893-895 and 911-913
dragDelta(client, start) == RDiv(R(client - start), scale)

\* onMouseMove of startDrag, lines 891-907
dragMouseMove(st, me) ==
    IF st.dragState = NoDrag THEN st
    ELSE LET pos == st.dragState.initialPositions
             dx == dragDelta(me.clientX, st.dragState.startX)
             dy == dragDelta(me.clientY, st.dragState.startY)
         IN  updateConnections(
                 [st EXCEPT !.elStyle =
                     [id \in DOMAIN @ |->
                         IF id \in DOMAIN pos
                         THEN [left |-> RAdd(pos[id].startX, dx),
                               top |-> RAdd(pos[id].startY, dy)]
                         ELSE @[id]]])

\* dragState.initialPositions.forEach, lines 921-936
commitPositions(ns, pos, dx, dy) ==
    [i \in DOMAIN ns |->
        IF ns[i].id \in DOMAIN pos
        THEN [ns[i] EXCEPT !.x = MathRound(RAdd(pos[ns[i].id].startX, dx)),
                           !.y = MathRound(RAdd(pos[ns[i].id].startY, dy))]
        ELSE ns[i]]

\* Faulty variant: the signal is raised before the positions are written.
signalThenCommit(st, pos, dx, dy) ==
    [onNodeChange(st) EXCEPT !.nodes = commitPositions(@, pos, dx, dy)]

\* lines 921-939: the positions are written, then onNodeChange is called
commitThenSignal(st, pos, dx, dy) ==
    onNodeChange([st EXCEPT !.nodes = commitPositions(@, pos, dx, dy)])

\* onMouseUp of startDrag, lines 909-944
dragMouseUp(st, ue, key) ==
    IF st.dragState = NoDrag THEN st
    ELSE LET dx == dragDelta(ue.clientX, st.dragState.startX)
             dy == dragDelta(ue.clientY, st.dragState.startY)
             st1 == commitThenSignal(st, st.dragState.initialPositions, dx, dy)
         IN  [st1 EXCEPT !.dragState = NoDrag,
                         !.listeners = removeListeners(@, key)]

\* Faulty variant: only a connection in the same direction counts.
connectionExistsDirected(cs, fromId, toId) ==
    \E k \in DOMAIN cs : cs[k].from = fromId /\ cs[k].to = toId

\* currentMap.connections.some(...), line 1239
connectionExists(cs, fromId, toId) ==
    \E k \in DOMAIN cs :
        \/ cs[k].from = fromId /\ cs[k].to = toId
        \/ cs[k].from = toId /\ cs[k].to = fromId

\* createNodeConnection, lines 1237-1245
createNodeConnection(st, fromId, toId) ==
    IF connectionExists(st.connections, fromId, toId) THEN st
    ELSE onNodeChange(updateConnections(
             [st EXCEPT !.connections =
                            Append(@, createConnection(st.idCounter + 1, fromId, toId)),
                        !.idCounter = @ + 1]))

\* startConnection up to the import() call, lines 1195-1198
startConnection(st, fromNodeId) ==
    [st EXCEPT !.connecting = TRUE, !.pendingImports = Append(@, fromNodeId)]

PreviewListener == Listener("mousemove", "preview", 0, NoNode)

\* document.addEventListener('mousemove', updateConnectionPreview): a
\* listener that is registered already is not registered again.
addPreviewListener(ls) ==
    IF \E i \in DOMAIN ls : ls[i] = PreviewListener THEN ls
    ELSE Append(ls, PreviewListener)

\* startConnectionPreview, connections.js lines 449-460
startConnectionPreview(st, fromNodeId) ==
    [st EXCEPT !.previewStartNodeId = fromNodeId,
               !.previewPath = TRUE,
               !.layer = Append(@, PreviewPathElement),
               !.listeners = addPreviewListener(@)]

\* The index of the element previewPath refers to: the preview path that
\* was appended last.
previewIndex(lay) ==
    CHOOSE k \in DOMAIN lay :
        isPreview(lay[k]) /\ \A j \in DOMAIN lay : isPreview(lay[j]) => j <= k

removeAt(seq, k) == [i \in 1..(Len(seq) - 1) |-> IF i < k THEN seq[i] ELSE seq[i + 1]]

\* endConnectionPreview, connections.js lines 493-498
endConnectionPreview(st) ==
    [st EXCEPT !.listeners = SelectSeq(@, LAMBDA l : l # PreviewListener),
               !.layer = IF st.previewPath THEN removeAt(@, previewIndex(@)) ELSE @,
               !.previewPath = FALSE,
               !.previewStartNodeId = NoNode]

\* updateConnectionPreview, connections.js lines 465-488
updateConnectionPreview(st, e) ==
    IF ~st.previewPath \/ st.previewStartNodeId = NoNode THEN st
    ELSE IF st.previewStartNodeId \notin DOMAIN st.elStyle THEN st
    ELSE LET fromRect == boundingClientRect(st.elStyle[st.previewStartNodeId])
             mousePos == [x |-> R(e.clientX - container.left),
                          y |-> R(e.clientY - container.top)]
             fromAnchor == getAnchorPoint(fromRect, mousePos, container)
         IN  [st EXCEPT !.layer[previewIndex(st.layer)].d =
                            createBezierPath(fromAnchor, mousePos)]

\* The then-callback of import('./connections.js'), lines 1198-1231
importResolved(st) ==
    LET fromNodeId == Head(st.pendingImports)
        st1 == startConnectionPreview(
                   [st EXCEPT !.pendingImports = Tail(@)], fromNodeId)
        key == freshKey(st1.listeners)
    IN  [st1 EXCEPT !.listeners =
            @ \o <<Listener("mousemove", "connection", key, fromNodeId),
                   Listener("mouseup", "connection", key, fromNodeId)>>]

\* onMouseUp of startConnection, lines 1210-1228; e.target is the node the
\* pointer is released on (NoNode: empty canvas)
connectionMouseUp(st, e, fromNodeId, key) ==
    LET st1 == endConnectionPreview([st EXCEPT !.connecting = FALSE])
        p == screenToCanvas(getTransform, container, R(e.clientX), R(e.clientY))
        st2 == addNodeAtLocation(st1, RSub(p.x, R(80)), RSub(p.y, R(40)))
        st3 == IF e.target # NoNode
               THEN IF e.target # fromNodeId
                    THEN createNodeConnection(st1, fromNodeId, e.target)
                    ELSE st1
               ELSE createNodeConnection(st2, fromNodeId, st2.idCounter)
    IN  [st3 EXCEPT !.listeners = removeListeners(@, key)]

\* One listener of the document is called with the event.
invoke(st, e, l) ==
    IF l.fn = "drag"
    THEN IF e.type = "mousemove" THEN dragMouseMove(st, e)
         ELSE dragMouseUp(st, e, l.key)
    ELSE IF l.fn = "connection"
    THEN IF e.type = "mousemove" THEN st
         ELSE connectionMouseUp(st, e, l.from, l.key)
    ELSE updateConnectionPreview(st, e)

\* The listeners registered when the event is dispatched are called in
\* registration order; one that an earlier listener removed is skipped.
RECURSIVE dispatch(_, _, _)
dispatch(st, e, ls) ==
    IF ls = <<>> THEN st
    ELSE dispatch(IF \E i \in DOMAIN st.listeners : st.listeners[i] = Head(ls)
                  THEN invoke(st, e, Head(ls)) ELSE st,
                  e, Tail(ls))

dispatchEvent(st, e) ==
    dispatch(st, e, SelectSeq(st.listeners, LAMBDA l : l.event = e.type))

Event(type, x, y, target, shiftKey, altKey) ==
    [type |-> type, clientX |-> x, clientY |-> y, target |-> target,
     shiftKey |-> shiftKey, altKey |-> altKey]

(***************************************************************************)
(* The events of the controller.  Each action is one event handler, run to *)
(* completion on the state of the modules.                                 *)
(***************************************************************************)
\* What the handlers of the controller leave alone.
notEditor == <<rectWidth, pc, childrenOf, parentOf, roots, positioned, rootX,
               rootIdx, orphanX, orphanY, writes, slice, treeOf, result,
               snapshots, renders, passes, canvasVars, lastRouterOp, routerOps,
               serviceVars>>

\* The state a handler leaves behind.
EdCommit(after) ==
    \E st \in {after} :
        /\ nodes' = st.nodes
        /\ connections' = st.connections
        /\ selectedNodeId' = st.selectedNodeId
        /\ selectedNodeIds' = st.selectedNodeIds
        /\ dragState' = st.dragState
        /\ listeners' = st.listeners
        /\ pendingImports' = st.pendingImports
        /\ connecting' = st.connecting
        /\ previewStartNodeId' = st.previewStartNodeId
        /\ previewPath' = st.previewPath
        /\ layer' = drawPending(st.layer)
        /\ elStyle' = st.elStyle
        /\ elements' = domRects(st.elStyle)
        /\ idCounter' = st.idCounter
        /\ nodeChanges' = st.nodeChanges
        /\ changeSnapshot' = st.changeSnapshot
        /\ opsLeft' = opsLeft - 1
        /\ UNCHANGED notEditor

\* The event a handler ran for, whether a drag was active when it arrived,
\* and the nodes a connection was being dragged from.
Edited(op, e) ==
    [op |-> op, e |-> e, dragging |-> dragState # NoDrag,
     from |-> {listeners[i].from : i \in {j \in DOMAIN listeners :
                                             /\ listeners[j].fn = "connection"
                                             /\ listeners[j].event = "mouseup"}}]

\* mousedown on a node element, lines 190-230
NodeMouseDown(nodeId, x, y, shiftKey, altKey) ==
    /\ opsLeft > 0
    /\ nodeId \in DOMAIN elStyle
    /\ LET e == Event("mousedown", x, y, nodeId, shiftKey, altKey)
       IN  /\ EdCommit(nodeMouseDown(Ed, e, nodeId))
           /\ lastEdit' = Edited("nodeMouseDown", e)
    /\ UNCHANGED connectionDrag

\* mousemove on the document
MouseMove(x, y) ==
    /\ opsLeft > 0
    /\ \E i \in DOMAIN listeners : listeners[i].event = "mousemove"
    /\ LET e == Event("mousemove", x, y, NoNode, FALSE, FALSE)
       IN  /\ EdCommit(dispatchEvent(Ed, e))
           /\ lastEdit' = Edited("mousemove", e)
    /\ UNCHANGED connectionDrag

\* mouseup on the document; target is the node under the pointer
MouseUp(x, y, target) ==
    /\ opsLeft > 0
    /\ target \in DOMAIN elStyle \cup {NoNode}
    /\ LET e == Event("mouseup", x, y, target, FALSE, FALSE)
       IN  /\ EdCommit(dispatchEvent(Ed, e))
           /\ lastEdit' = Edited("mouseup", e)
    /\ connectionDrag' = FALSE

\* click on the delete button of a node toolbar, lines 295-297
DeleteNodeClick(nodeId) ==
    /\ opsLeft > 0
    /\ nodeId \in DOMAIN elStyle
    /\ EdCommit(deleteNode(Ed, nodeId))
    /\ lastEdit' = Edited("deleteNode", Event("click", 0, 0, nodeId, FALSE, FALSE))
    /\ UNCHANGED connectionDrag

\* keydown Backspace or Delete outside an editor, lines 52-59
DeleteKey ==
    /\ opsLeft > 0
    /\ selectedNodeIds # {} \/ selectedNodeId # NoNode
    /\ EdCommit(deleteSelectedNodes(Ed))
    /\ lastEdit' = Edited("deleteSelectedNodes",
                          Event("keydown", 0, 0, NoNode, FALSE, FALSE))
    /\ UNCHANGED connectionDrag

\* click on the document outside every node, lines 37-47
DocumentClick ==
    /\ opsLeft > 0
    /\ selectedNodeIds # {} \/ selectedNodeId # NoNode
    /\ EdCommit(selectNode(Ed, NoNode))
    /\ lastEdit' = Edited("click", Event("click", 0, 0, NoNode, FALSE, FALSE))
    /\ UNCHANGED connectionDrag

\* dblclick on the empty canvas, canvas.js lines 380-392
CanvasDblClick(x, y) ==
    /\ opsLeft > 0
    /\ LET p == screenToCanvas(getTransform, container, R(x), R(y))
       IN  EdCommit(addNodeAtLocation(Ed, p.x, p.y))
    /\ lastEdit' = Edited("addNodeAtLocation",
                          Event("dblclick", x, y, NoNode, FALSE, FALSE))
    /\ UNCHANGED connectionDrag

\* mousedown on a handle of a node, lines 410-415
HandleMouseDown(nodeId) ==
    /\ opsLeft > 0
    /\ nodeId \in DOMAIN elStyle
    /\ EdCommit(startConnection(Ed, nodeId))
    /\ lastEdit' = Edited("startConnection",
                          Event("mousedown", 0, 0, nodeId, FALSE, FALSE))
    /\ connectionDrag' = TRUE

\* the promise of import('./connections.js') resolves, line 1198
ImportResolved ==
    /\ opsLeft > 0
    /\ pendingImports # <<>>
    /\ EdCommit(importResolved(Ed))
    /\ lastEdit' = Edited("importResolved",
                          Event("then", 0, 0, Head(pendingImports), FALSE, FALSE))
    /\ UNCHANGED connectionDrag

\* The maps the controller is initialised with: n nodes and the
\* connections between the given pairs.
EditorMaps ==
    {[n |-> 0, cs |-> <<>>],
     [n |-> 3, cs |-> <<<<1, 2>>, <<2, 3>>>>]}

\* initNodes(map, ...) and updateConnections(map), part_000 lines 105-119,
\* followed by a selection of some of the nodes.
EditorLoaded(m, selected) ==
    /\ nodes = [i \in 1..m.n |->
                   createNode(i, IF i = 1 THEN "main" ELSE "secondary",
                              200 * i, 100 * i)]
    /\ connections = [k \in DOMAIN m.cs |->
                         createConnection(m.n + k, m.cs[k][1], m.cs[k][2])]
    /\ idCounter = m.n + Len(m.cs)
    /\ elStyle = [i \in 1..m.n |-> [left |-> R(200 * i), top |-> R(100 * i)]]
    /\ elements = domRects(elStyle)
    /\ layer = drawConnections(<<>>, connections, container, elements)
    /\ previewPath = FALSE
    /\ previewStartNodeId = NoNode
    /\ selectedNodeIds = selected
    /\ selectedNodeId = NoNode
    /\ dragState = NoDrag
    /\ listeners = <<>>
    /\ pendingImports = <<>>
    /\ connecting = FALSE
    /\ connectionDrag = FALSE
    /\ nodeChanges = 0
    /\ changeSnapshot = <<>>
    /\ lastEdit = NoEdit
    /\ lastRouterOp = "none"
    /\ routerOps = 0
    /\ ServicesUnused

MaxNodesOps == 3
MaxConnectOps == 4

EditorPoint == <<300, 200>>

InitEditor(ops) ==
    /\ LayoutIdle
    /\ CanvasConstructed
    /\ container = [left |-> 0, top |-> 0, width |-> 1400, height |-> 900]
    /\ domNodes = <<>>
    /\ \E m \in EditorMaps, selected \in {{}, {1, 2}, {1, 2, 3}} :
          /\ selected \subseteq 1..m.n
          /\ EditorLoaded(m, selected)
    /\ opsLeft = ops

InitNodes == InitEditor(MaxNodesOps)

NextNodes ==
    \/ \E id \in DOMAIN elStyle, altKey \in BOOLEAN :
          NodeMouseDown(id, EditorPoint[1], EditorPoint[2], FALSE, altKey)
    \/ \E target \in DOMAIN elStyle \cup {NoNode} :
          MouseUp(EditorPoint[1], EditorPoint[2], target)
    \/ \E id \in DOMAIN elStyle : DeleteNodeClick(id)
    \/ DeleteKey
    \/ CanvasDblClick(EditorPoint[1], EditorPoint[2])
    \/ \E id \in DOMAIN elStyle : HandleMouseDown(id)
    \/ ImportResolved

SpecNodes == InitNodes /\ [][NextNodes]_vars

\* The same events one event deeper, with the pointer moving.
InitConnect == InitEditor(MaxConnectOps)

NextConnect ==
    \/ NextNodes
    \/ \E p \in ScreenPoints : MouseMove(p[1], p[2])

SpecConnect == InitConnect /\ [][NextConnect]_vars

(***************************************************************************)
(* C22. In every state reachable through addNodeAtLocation, deleteNode,    *)
(* deleteSelectedNodes, duplicateSelectedNodes and a connection drag       *)
(* (startConnection, then release on a node or on empty space), in any     *)
(* interleaving, every connection's from and to are ids of nodes present   *)
(* in map.nodes.                                                           *)
(***************************************************************************)
C22_NoDanglingConnection ==
    \A k \in DOMAIN connections :
        /\ connections[k].from \in NodeIds(nodes)
        /\ connections[k].to \in NodeIds(nodes)


(***************************************************************************)
(* C23. Starting from a map without duplicates, in every state reachable   *)
(* through createNodeConnection, duplicateSelectedNodes, deleteNode and    *)
(* deleteSelectedNodes no two connections join the same unordered pair of  *)
(* nodes: neither A->B twice nor A->B together with B->A.                  *)
(***************************************************************************)
samePair(c, d) ==
    \/ c.from = d.from /\ c.to = d.to
    \/ c.from = d.to /\ c.to = d.from

C23_NoDuplicatePair ==
    \A j, k \in DOMAIN connections :
        j # k => ~samePair(connections[j], connections[k])

\* A connection drag from B was released on A while A->B existed, and the
\* connection was refused.
C23_Witness_ReverseRefused ==
    /\ lastEdit.op = "mouseup"
    /\ lastEdit.e.target # NoNode
    /\ \E b \in lastEdit.from :
          /\ b # lastEdit.e.target
          /\ connectionExistsDirected(connections, lastEdit.e.target, b)
          /\ ~connectionExistsDirected(connections, b, lastEdit.e.target)

\* Two connected nodes were duplicated together with their connection.
C23_DuplicatedWithConnection ==
    /\ lastEdit.op = "nodeMouseDown"
    /\ lastEdit.e.altKey
    /\ Len(connections) > 2

(***************************************************************************)
(* Dragging nodes: the pointer goes down on nodes, moves and is released,  *)
(* with and without shift and alt, at scale 1 and zoomed in to scale 2     *)
(* (where half pixels arise); nodes are deleted and deselected meanwhile.  *)
(***************************************************************************)
MaxDragOps == 3

\* The pointer goes down at EditorPoint and is moved to or released at one
\* of these points.
DragPoints == {<<300, 200>>, <<305, 197>>}

\* shiftKey and altKey of a mousedown
DragKeys == {<<FALSE, FALSE>>, <<TRUE, FALSE>>, <<FALSE, TRUE>>}

InitDrag ==
    /\ LayoutIdle
    /\ scale \in {R(1), MAX_ZOOM}
    /\ offsetX = R(0)
    /\ offsetY = R(0)
    /\ isPanning = FALSE
    /\ panStartX = R(0)
    /\ panStartY = R(0)
    /\ lastCall = NoCall
    /\ panOrigin = NoPan
    /\ canvasOps = 0
    /\ container = [left |-> 0, top |-> 0, width |-> 1400, height |-> 900]
    /\ domNodes = <<>>
    /\ \E m \in EditorMaps, selected \in {{}, {1, 2}} :
          /\ m.n > 0
          /\ EditorLoaded(m, selected)
    /\ opsLeft = MaxDragOps

NextDrag ==
    \/ \E id \in DOMAIN elStyle, keys \in DragKeys :
          NodeMouseDown(id, EditorPoint[1], EditorPoint[2], keys[1], keys[2])
    \/ \E p \in DragPoints : MouseMove(p[1], p[2])
    \/ \E p \in DragPoints : MouseUp(p[1], p[2], NoNode)
    \/ \E id \in DOMAIN elStyle : DeleteNodeClick(id)
    \/ DocumentClick

SpecDrag == InitDrag /\ [][NextDrag]_vars

(***************************************************************************)
(* C24. dragState is a single interaction slot: a startDrag issued while a *)
(* drag is active is ignored (no second pair of listeners, recorded start  *)
(* positions unchanged), and the mouseup that follows an accepted          *)
(* startDrag always resets dragState to null and removes that drag's       *)
(* mousemove and mouseup listeners, so at most one drag is active at any   *)
(* time.                                                                   *)
(***************************************************************************)
dragListeners(ls) == SelectSeq(ls, LAMBDA l : l.fn = "drag")

C24_Step ==
    /\ (dragState # NoDrag /\ lastEdit'.op = "nodeMouseDown")
           => /\ dragState' = dragState
              /\ listeners' = listeners
    /\ (dragState # NoDrag /\ lastEdit'.op = "mouseup")
           => /\ dragState' = NoDrag
              /\ dragListeners(listeners') = <<>>
    /\ Len(dragListeners(listeners')) = IF dragState' # NoDrag THEN 2 ELSE 0

C24_SingleDragSlot == [][C24_Step]_vars

\* The pointer went down on a node while a drag was active, and that drag
\* is still the active one.
C24_Witness_SecondMouseDown ==
    /\ lastEdit.op = "nodeMouseDown"
    /\ lastEdit.dragging
    /\ dragState # NoDrag
    /\ Len(dragListeners(listeners)) = 2

(***************************************************************************)
(* C25. Ending a drag of k selected nodes raises onNodeChange exactly      *)
(* once, and only after the new positions of all k nodes have been written *)
(* to the map; non-selected nodes keep their positions.                    *)
(***************************************************************************)
\* Where the drag puts a coordinate that started at start when the pointer
\* went from down to up.
droppedAt(start, down, up) ==
    LET twice == RAdd(RMul(R(2), start), RMul(R(2), RDiv(R(up - down), scale)))
    IN  (ToInt(twice) + 1) \div 2

C25_Step ==
    (dragState # NoDrag /\ lastEdit'.op = "mouseup")
        => /\ nodeChanges' = nodeChanges + 1
           /\ changeSnapshot' = nodes'
           /\ Len(nodes') = Len(nodes)
           /\ \A i \in DOMAIN nodes :
                 LET pos == dragState.initialPositions
                     id == nodes[i].id
                 IN  IF id \in DOMAIN pos
                     THEN /\ nodes'[i].id = id
                          /\ nodes'[i].x = droppedAt(pos[id].startX, dragState.startX,
                                                     lastEdit'.e.clientX)
                          /\ nodes'[i].y = droppedAt(pos[id].startY, dragState.startY,
                                                     lastEdit'.e.clientY)
                     ELSE nodes'[i] = nodes[i]

C25_DragEndSignalsOnce == [][C25_Step]_vars

\* Nodes 1 and 2 were dragged by (5, -3) screen pixels at scale 2 and
\* dropped on whole pixels; node 3 stayed, and the signal was raised once.
C25_Witness_TwoNodesDropped ==
    /\ lastEdit.op = "mouseup"
    /\ lastEdit.dragging
    /\ scale = MAX_ZOOM
    /\ nodeChanges = 1
    /\ changeSnapshot = nodes
    /\ Len(nodes) = 3
    /\ nodes[1].x = 203 /\ nodes[1].y = 99
    /\ nodes[2].x = 403 /\ nodes[2].y = 199
    /\ nodes[3].x = 600 /\ nodes[3].y = 300

(***************************************************************************)
(* history.js: the undo and redo stacks of map states.                     *)
(***************************************************************************)
MAX_HISTORY == 50

\* JSON.parse(JSON.stringify(state)): a coordinate that is NaN comes back
\* as null; everything else in a map state survives.
jsonCopy(state) ==
    IF state = Null THEN Null
    ELSE [state EXCEPT !.x = IF @ = "NaN" THEN "null" ELSE @]

\* clear, lines 18-23
clear(h, initialState) ==
    [undoStack |-> <<>>, redoStack |-> <<>>, currentState |-> jsonCopy(initialState)]

\* Faulty variant: the stack is never trimmed.
limitNever(stack) == stack

\* if (this.undoStack.length > MAX_HISTORY) this.undoStack.shift(), lines 40-42
limit(stack) == IF Len(stack) > MAX_HISTORY THEN Tail(stack) ELSE stack

\* push, lines 30-51
push(h, newState) ==
    IF h.currentState = Null THEN [h EXCEPT !.currentState = jsonCopy(newState)]
    ELSE [undoStack |-> limit(Append(h.undoStack, h.currentState)),
          redoStack |-> <<>>,
          currentState |-> jsonCopy(newState)]

Last(stack) == stack[Len(stack)]
Pop(stack) == SubSeq(stack, 1, Len(stack) - 1)

\* undo, lines 57-69: the manager afterwards and the value returned
undo(h) ==
    IF Len(h.undoStack) = 0 THEN [h |-> h, returned |-> Null]
    ELSE LET previousState == Last(h.undoStack)
         IN  [h |-> [undoStack |-> Pop(h.undoStack),
                     redoStack |-> IF h.currentState # Null
                                   THEN Append(h.redoStack, h.currentState)
                                   ELSE h.redoStack,
                     currentState |-> previousState],
              returned |-> jsonCopy(previousState)]

\* Faulty variant: the current state is not put back on the undo stack.
redoDropsCurrent(h) ==
    IF Len(h.redoStack) = 0 THEN [h |-> h, returned |-> Null]
    ELSE [h |-> [undoStack |-> h.undoStack,
                 redoStack |-> Pop(h.redoStack),
                 currentState |-> Last(h.redoStack)],
          returned |-> jsonCopy(Last(h.redoStack))]

\* redo, lines 75-87
redo(h) ==
    IF Len(h.redoStack) = 0 THEN [h |-> h, returned |-> Null]
    ELSE LET nextState == Last(h.redoStack)
         IN  [h |-> [undoStack |-> IF h.currentState # Null
                                   THEN Append(h.undoStack, h.currentState)
                                   ELSE h.undoStack,
                     redoStack |-> Pop(h.redoStack),
                     currentState |-> nextState],
              returned |-> jsonCopy(nextState)]

\* What the calls on the HistoryManager leave alone.
notHistory == <<layoutVars, canvasVars, routerVars, editorVars, appVars>>

MaxHistoryOps == 4

\* The map states handed to clear and push.
MapStates == {[title |-> t, x |-> x] : t \in {"a", "b"}, x \in {"0", "NaN"}}

HistoryCalled(op, after, returned) ==
    /\ historyOps < MaxHistoryOps
    /\ history' = after
    /\ historyReturn' = returned
    /\ historyCall' = [op |-> op, prev |-> historyCall.op, before |-> history]
    /\ historyOps' = historyOps + 1
    /\ UNCHANGED notHistory

Clear(initialState) == HistoryCalled("clear", clear(history, initialState), Null)

Push(newState) == HistoryCalled("push", push(history, newState), Null)

Undo == HistoryCalled("undo", undo(history).h, undo(history).returned)

Redo == HistoryCalled("redo", redo(history).h, redo(history).returned)

\* The i-th map state of an editing session.
sessionState(i) == [title |-> IF i % 2 = 0 THEN "a" ELSE "b", x |-> "0"]

\* The manager after clear(sessionState(0)), push(sessionState(1)) ...
\* push(sessionState(n)) and k calls of undo: the undo stack holds the last
\* MAX_HISTORY states before the current one.
session(n, k) ==
    LET m == IF n < MAX_HISTORY THEN n ELSE MAX_HISTORY
    IN  [undoStack |-> [i \in 1..(m - k) |-> sessionState(n - m + i - 1)],
         redoStack |-> [j \in 1..k |-> sessionState(n - j + 1)],
         currentState |-> sessionState(n - k)]

\* The editing sessions the calls continue: a fresh manager, short
\* sessions, and sessions that filled the undo stack.
PushesBefore == {0, 2, MAX_HISTORY - 1, MAX_HISTORY, MAX_HISTORY + 2}
UndosBefore == {0, 1, 2}

InitHistory ==
    /\ LayoutIdle
    /\ CanvasUnused
    /\ RouterUnused
    /\ nodes = <<>>
    /\ connections = <<>>
    /\ EditorIdle
    /\ AppUnused
    /\ \E n \in PushesBefore, k \in UndosBefore :
          /\ k <= n
          /\ history = IF n = 0 THEN HistoryConstructed
                       ELSE session(n, k)
    /\ historyReturn = Null
    /\ historyCall = NoHistoryCall
    /\ historyOps = 0

NextHistory ==
    \/ \E s \in MapStates : Clear(s)
    \/ \E s \in MapStates : Push(s)
    \/ Undo
    \/ Redo

SpecHistory == InitHistory /\ [][NextHistory]_vars

(***************************************************************************)
(* C26. In every state reachable by any sequence of clear, push, undo and  *)
(* redo on HistoryManager, undoStack.length <= MAX_HISTORY (50); redo,     *)
(* which pushes onto undoStack without a limit check, can never exceed it. *)
(***************************************************************************)
C26_UndoStackBounded == Len(history.undoStack) <= MAX_HISTORY

\* A redo filled the undo stack to the limit again.
C26_Witness_RedoAtLimit ==
    /\ historyCall.op = "redo"
    /\ historyReturn # Null
    /\ Len(history.undoStack) = MAX_HISTORY

(***************************************************************************)
(* C27. When undo is available, undo() immediately followed by redo()      *)
(* restores currentState, undoStack and redoStack to exactly their values  *)
(* before the undo, and the state returned by redo() equals the state that *)
(* was current before the undo; undo() and redo() on an empty stack return *)
(* null and change nothing.                                                *)
(***************************************************************************)
C27_Step ==
    /\ (historyCall.op = "undo" /\ historyCall.before.undoStack # <<>>
            /\ historyCall'.op = "redo")
           => /\ history' = historyCall.before
              /\ historyReturn' = historyCall.before.currentState
    /\ (historyCall'.op = "undo" /\ history.undoStack = <<>>)
           => /\ historyReturn' = Null
              /\ history' = history
    /\ (historyCall'.op = "redo" /\ history.redoStack = <<>>)
           => /\ historyReturn' = Null
              /\ history' = history

C27_UndoRedoRoundTrip == [][C27_Step]_vars

\* An undo that had a state to go back to was followed by a redo.
C27_Witness_UndoThenRedo ==
    /\ historyCall.op = "redo"
    /\ historyCall.prev = "undo"
    /\ historyReturn # Null
    /\ history.undoStack # <<>>
    /\ history.currentState = historyReturn

(***************************************************************************)
(* app.js: opening, creating and deleting maps, and the debounced          *)
(* auto-save.  An async handler runs up to its next await in one step; the *)
(* database request it waits for is performed when the handler resumes.    *)
(***************************************************************************)
SeqWithout(seq, x) == SelectSeq(seq, LAMBDA y : y # x)

\* saveMap, storage.js lines 55-69: put with a fresh updatedAt
saveMap(stored, id) == Append(SeqWithout(stored, id), id)

\* deleteMap, storage.js lines 94-105
deleteMap(stored, id) == SeqWithout(stored, id)

\* getAllMaps, storage.js lines 111-133: newest first
getAllMaps(stored) == [i \in 1..Len(stored) |-> stored[Len(stored) + 1 - i]]

Task(fn, mapId, at, arg) == [fn |-> fn, mapId |-> mapId, pc |-> at, arg |-> arg]

\* createNewMap up to its first await, lines 148-155: the current map is
\* saved first, if there is one; else the new map is created and saved.
createNewMapStarted(fn, mapId) ==
    IF currentMap # NoMap THEN Task(fn, mapId, "saveCurrentMap", currentMap)
    ELSE Task(fn, mapId, "saveMap", mapCount + 1)

\* What the steps of the application leave alone.
notApp == <<layoutVars, canvasVars, routerVars, editorVars, historyVars>>

MaxAppOps == 7
MaxTasks == 2

AppStep ==
    /\ appOps < MaxAppOps
    /\ appOps' = appOps + 1
    /\ UNCHANGED notApp

\* onNodeChange or a title change: scheduleAutoSave, lines 203-212
ScheduleAutoSave ==
    /\ AppStep
    /\ currentMap # NoMap
    /\ timerCount' = timerCount + 1
    /\ saveTimeout' = timerCount + 1
    /\ UNCHANGED <<currentMap, firedTimers, storedMaps, mapCount, tasks, deletions>>

\* The timer fires: saveCurrentMap, lines 193-198 and 208-211.  A timer
\* that was replaced was cleared and never fires.
AutoSaveFires ==
    /\ AppStep
    /\ saveTimeout # 0
    /\ saveTimeout \notin firedTimers
    /\ firedTimers' = firedTimers \cup {saveTimeout}
    /\ storedMaps' = IF currentMap # NoMap THEN saveMap(storedMaps, currentMap)
                     ELSE storedMaps
    /\ UNCHANGED <<currentMap, saveTimeout, timerCount, mapCount, tasks, deletions>>

\* click on the delete button of a map in the list: handleDeleteMap up to
\* await deleteMap(mapId), lines 168-169
DeleteMapClick(mapId) ==
    /\ AppStep
    /\ Len(tasks) < MaxTasks
    /\ \E i \in DOMAIN storedMaps : storedMaps[i] = mapId
    /\ tasks' = Append(tasks, Task("handleDeleteMap", mapId, "deleteMap", mapId))
    /\ UNCHANGED <<currentMap, saveTimeout, timerCount, firedTimers, storedMaps,
                   mapCount, deletions>>

\* click on the new-map button, line 232
NewMapClick ==
    /\ AppStep
    /\ Len(tasks) < MaxTasks
    /\ tasks' = Append(tasks, createNewMapStarted("createNewMap", NoMap))
    /\ mapCount' = IF currentMap # NoMap THEN mapCount ELSE mapCount + 1
    /\ UNCHANGED <<currentMap, saveTimeout, timerCount, firedTimers, storedMaps,
                   deletions>>

\* The handler is done.  A handleDeleteMap that returns is recorded with the
\* timer that is pending at that time.
Completed(i) ==
    /\ tasks' = [j \in 1..(Len(tasks) - 1) |-> IF j < i THEN tasks[j] ELSE tasks[j + 1]]
    /\ deletions' =
           IF tasks[i].fn = "handleDeleteMap"
           THEN Append(deletions,
                       [id |-> tasks[i].mapId,
                        timer |-> IF saveTimeout \in firedTimers THEN 0
                                  ELSE saveTimeout])
           ELSE deletions

\* handleDeleteMap after await deleteMap(mapId), lines 169-185
AfterDeleteMap(i) ==
    /\ tasks[i].pc = "deleteMap"
    /\ storedMaps' = deleteMap(storedMaps, tasks[i].mapId)
    /\ tasks' = [tasks EXCEPT ![i].pc =
                     IF currentMap # NoMap /\ currentMap = tasks[i].mapId
                     THEN "getAllMaps" ELSE "refresh"]
    /\ UNCHANGED <<currentMap, mapCount, deletions>>

\* handleDeleteMap after await getAllMaps(), lines 173-180
AfterGetAllMaps(i) ==
    /\ tasks[i].pc = "getAllMaps"
    /\ LET maps == getAllMaps(storedMaps)
       IN  IF Len(maps) > 0
           THEN /\ currentMap' = maps[1]
                /\ Completed(i)
                /\ UNCHANGED mapCount
           ELSE /\ tasks' = [tasks EXCEPT ![i] =
                                createNewMapStarted(tasks[i].fn, tasks[i].mapId)]
                /\ mapCount' = IF currentMap # NoMap THEN mapCount ELSE mapCount + 1
                /\ UNCHANGED <<currentMap, deletions>>
    /\ UNCHANGED storedMaps

\* createNewMap after await saveCurrentMap(), lines 150-155
AfterSaveCurrentMap(i) ==
    /\ tasks[i].pc = "saveCurrentMap"
    /\ storedMaps' = saveMap(storedMaps, tasks[i].arg)
    /\ mapCount' = mapCount + 1
    /\ tasks' = [tasks EXCEPT ![i].pc = "saveMap", ![i].arg = mapCount + 1]
    /\ UNCHANGED <<currentMap, deletions>>

\* createNewMap after await saveMap(newMap), lines 155-159: setActiveMap
AfterSaveMap(i) ==
    /\ tasks[i].pc = "saveMap"
    /\ storedMaps' = saveMap(storedMaps, tasks[i].arg)
    /\ currentMap' = tasks[i].arg
    /\ tasks' = [tasks EXCEPT ![i].pc = "refresh"]
    /\ UNCHANGED <<mapCount, deletions>>

\* After the last await getAllMaps() the list is drawn and the handler
\* returns, lines 159-162 and 183-187.
AfterRefresh(i) ==
    /\ tasks[i].pc = "refresh"
    /\ Completed(i)
    /\ UNCHANGED <<currentMap, storedMaps, mapCount>>

\* A waiting handler resumes.
Resume(i) ==
    /\ AppStep
    /\ i \in DOMAIN tasks
    /\ \/ AfterDeleteMap(i)
       \/ AfterGetAllMaps(i)
       \/ AfterSaveCurrentMap(i)
       \/ AfterSaveMap(i)
       \/ AfterRefresh(i)
    /\ UNCHANGED <<saveTimeout, timerCount, firedTimers>>

\* After init(): one or two maps are stored and one of them is open.
InitApp ==
    /\ LayoutIdle
    /\ CanvasUnused
    /\ RouterUnused
    /\ nodes = <<>>
    /\ connections = <<>>
    /\ EditorIdle
    /\ HistoryUnused
    /\ storedMaps \in {<<1>>, <<1, 2>>, <<2, 1>>}
    /\ mapCount = Len(storedMaps)
    /\ currentMap = 1
    /\ saveTimeout = 0
    /\ timerCount = 0
    /\ firedTimers = {}
    /\ tasks = <<>>
    /\ deletions = <<>>
    /\ appOps = 0

NextApp ==
    \/ ScheduleAutoSave
    \/ AutoSaveFires
    \/ \E mapId \in 1..mapCount : DeleteMapClick(mapId)
    \/ NewMapClick
    \/ \E i \in DOMAIN tasks : Resume(i)

SpecApp == InitApp /\ [][NextApp]_vars

(***************************************************************************)
(* C28. Once handleDeleteMap(id) has completed and every auto-save timer   *)
(* pending at that time has fired, storage holds no map with that id; this *)
(* holds also when the deleted map was the current map, when it was the    *)
(* only map, and when an edit had scheduled an auto-save before the        *)
(* deletion.                                                               *)
(***************************************************************************)
stored(id) == \E i \in DOMAIN storedMaps : storedMaps[i] = id

C28_DeletedMapStaysDeleted ==
    \A d \in DOMAIN deletions :
        (deletions[d].timer = 0 \/ deletions[d].timer \in firedTimers)
            => ~stored(deletions[d].id)

(***************************************************************************)
(* A pan gesture with the wheel or the zoom buttons used meanwhile.        *)
(***************************************************************************)
NextPan ==
    \/ \E p \in ScreenPoints : StartPan(R(p[1]), R(p[2]))
    \/ \E p \in ScreenPoints, delta \in {ZOOM_STEP, RNeg(ZOOM_STEP)} :
          ZoomAt(R(p[1]), R(p[2]), delta)
    \/ \E p \in ScreenPoints : Pan(R(p[1]), R(p[2]))
    \/ EndPan

SpecPan == InitCanvas /\ [][NextPan]_vars

(***************************************************************************)
(* C29. During an active pan gesture the document point that was under the *)
(* pointer at startPan is under the pointer after every subsequent         *)
(* pan(x, y), also when one or more zoomAt calls (wheel or zoom buttons)   *)
(* occur between startPan and that pan.                                    *)
(***************************************************************************)
C29_PanKeepsDocumentPoint ==
    (isPanning /\ lastCall.op = "pan")
        => screenToCanvas(getTransform, container, lastCall.x, lastCall.y)
             = screenToCanvas(panOrigin, container, panOrigin.x, panOrigin.y)

\* The same without a change of scale inside the gesture.
C29_PanKeepsDocumentPointAtOneScale ==
    (isPanning /\ lastCall.op = "pan" /\ scale = panOrigin.scale)
        => screenToCanvas(getTransform, container, lastCall.x, lastCall.y)
             = screenToCanvas(panOrigin, container, panOrigin.x, panOrigin.y)

(***************************************************************************)
(* C30. For every interleaving of handle mousedown, resolution of the      *)
(* asynchronous module import in startConnection, and mouseup, at most one *)
(* preview path exists in the connections layer at any time, and once no   *)
(* connection drag is in progress no preview path and no preview mousemove *)
(* listener remains.                                                       *)
(***************************************************************************)
previewPaths == SelectSeq(layer, isPreview)

C30_OnePreviewWhileDragging ==
    /\ Len(previewPaths) <= 1
    /\ ~connectionDrag
           => /\ previewPaths = <<>>
              /\ \A i \in DOMAIN listeners : listeners[i] # PreviewListener

\* The first half alone: never two preview paths.
C30_AtMostOnePreview == Len(previewPaths) <= 1

=============================================================================
